---- MODULE Spec2Model ----
(***************************************************************************)
(* Drill posture evaluation of the NCC AI trainer backend: the per-frame   *)
(* checks and the per-video aggregation of                                 *)
(*   Backend/src/drills/high_leg_march.py, salute_analysis.py,             *)
(*   turns_analysis.py and Backend/src/pose_utils.py.                      *)
(*                                                                         *)
(* Units.  Normalised image coordinates are integers in thousandths       *)
(* (0.04 is 40), landmark visibilities are integers in hundredths (0.5 is  *)
(* 50), angles are whole degrees.                                          *)
(*                                                                         *)
(* Landmark frames.  The pose estimator is external; a frame is what it    *)
(* returned for one decoded image: whether there are pose landmarks        *)
(* (pose), the visibility of each landmark the analyzer reads (vis), the   *)
(* coordinates the checks compare directly (x, y), and for each limb       *)
(* segment the analyzer measures the value math.degrees(math.atan2(dy,dx)) *)
(* has on its end points (brg, the bearing of the segment).                *)
(*                                                                         *)
(* Images.  A decoded image is identified by its position in the video     *)
(* (1, 2, ...); 0 stands for Python's None / an unbound local.             *)
(***************************************************************************)
EXTENDS Integers, Sequences, FiniteSets, TLC

VARIABLES
    drill,      \* which analyzer this request runs
    pc,         \* "open" | "loop" | "done": position in the analyzer
    cap,        \* the cv2.VideoCapture: frames it can still deliver, and their kind
    hist,       \* the frames cap.read() has returned so far, in order
    cur,        \* the loop's per-frame locals: the feedback of the current frame
    hl,         \* locals of analyze_high_leg_march
    sal,        \* locals of analyze_salute
    turn,       \* locals of analyze_turn_logic
    result,     \* the value the analyzer returned
    input_data, \* execute_analysis' input: a video path, or the live webcam frame
    points,     \* the arguments a, b, c of a call of calculate_angle
    drill_types, \* execute_analysis' list of requested drill keys
    all_results, \* execute_analysis' all_results
    returned,   \* what a call under study returned, or the exception it raised
    pose,       \* the module global "pose" of the drill's module: None or a model handle
    tracked,    \* per model handle: the sessions whose frames its tracker has absorbed
    threads     \* the request threads running concurrently: position and locals

\* The variables outside the analysis of one drill of one request.
callVars == <<points, drill_types, all_results, returned>>

otherVars == <<callVars, pose, tracked, threads>>

vars == <<drill, pc, cap, hist, cur, hl, sal, turn, result, input_data, otherVars>>

\* The longest video of a multi-frame session.
MaxFrames == 3

\* The longest video of a session long enough for the head-stability statistic.
MaxLongFrames == 11

\* Python None for a dict-valued, a list-valued and an image-valued name.
None == <<>>
NoneList == <<"None">>
NoImage == 0

\* float('inf')
INF == 99

Abs(n) == IF n < 0 THEN -n ELSE n

\* A bearing brought back into -179..180 (the range of atan2 in degrees).
Norm(b) == ((b + 179) % 360) - 179

\* atan2 of the reversed segment.
Opp(b) == Norm(b + 180)

(***************************************************************************)
(* pose_utils.py                                                           *)
(***************************************************************************)

\* math.degrees(math.atan2(c[1]-b[1], c[0]-b[0])): the bearing of c seen from b.
Atan2Deg(lm, b, c) ==
    IF <<b, c>> \in DOMAIN lm.brg THEN lm.brg[<<b, c>>] ELSE Opp(lm.brg[<<c, b>>])

\* Variant: the angle without the fold of reflex angles back into [0, 180].
calculate_angle_nofold(lm, a, b, c) ==
    Abs(Atan2Deg(lm, b, c) - Atan2Deg(lm, b, a))

calculate_angle(lm, a, b, c) ==
    LET ang == Abs(Atan2Deg(lm, b, c) - Atan2Deg(lm, b, a))
    IN  IF ang > 180 THEN 360 - ang ELSE ang

\* The visibility below which a required landmark rejects the frame.
VISIBILITY_MIN == 50

(***************************************************************************)
(* high_leg_march.py: constants                                            *)
(***************************************************************************)
HIGH_LEG_Y_TOLERANCE == 40
HIP_FLEXION_ANGLE_RANGE == <<80, 120>>
KNEE_BEND_ANGLE_RANGE == <<80, 110>>
STATIONARY_LEG_STRAIGHT == 170
FOOT_ANGLE_RANGE == <<70, 110>>

HL_required_landmarks ==
    {"r_shldr", "l_shldr", "r_hip", "l_hip", "r_knee", "l_knee",
     "r_ankle", "l_ankle", "r_heel", "l_heel", "r_foot_index", "l_foot_index"}

\* "1. KNEE HEIGHT CHECK"
HL_knee_height_ok(active_knee_y, active_hip_y) ==
    active_knee_y <= active_hip_y + HIGH_LEG_Y_TOLERANCE

\* Variant: both ranges exclusive at their ends.
HL_knee_angle_ok_strict(hip_flexion_angle, knee_bend_angle) ==
    /\ HIP_FLEXION_ANGLE_RANGE[1] < hip_flexion_angle
    /\ hip_flexion_angle < HIP_FLEXION_ANGLE_RANGE[2]
    /\ KNEE_BEND_ANGLE_RANGE[1] < knee_bend_angle
    /\ knee_bend_angle < KNEE_BEND_ANGLE_RANGE[2]

\* "2. KNEE ANGLE CHECK"
HL_knee_angle_ok(hip_flexion_angle, knee_bend_angle) ==
    /\ HIP_FLEXION_ANGLE_RANGE[1] <= hip_flexion_angle
    /\ hip_flexion_angle <= HIP_FLEXION_ANGLE_RANGE[2]
    /\ KNEE_BEND_ANGLE_RANGE[1] <= knee_bend_angle
    /\ knee_bend_angle <= KNEE_BEND_ANGLE_RANGE[2]

\* "3. STATIONARY LEG CHECK"
HL_stationary_leg_ok(support_knee_angle) ==
    support_knee_angle > STATIONARY_LEG_STRAIGHT

\* "4. FOOT ANGLE CHECK"
HL_foot_angle_ok(foot_angle) ==
    FOOT_ANGLE_RANGE[1] <= foot_angle /\ foot_angle <= FOOT_ANGLE_RANGE[2]

\* Variant: the checks stop at the first failed one.
HL_fail_points_first_only(knee_height_ok, knee_angle_ok, stationary_leg_ok, foot_angle_ok) ==
    IF ~knee_height_ok THEN <<"KNEE_HEIGHT">>
    ELSE IF ~knee_angle_ok THEN <<"KNEE_ANGLE">>
    ELSE IF ~stationary_leg_ok THEN <<"STATIONARY_LEG">>
    ELSE IF ~foot_angle_ok THEN <<"FOOT_ANGLE">>
    ELSE <<>>

\* fail_points as the list the code builds: one append per failed check, in order.
HL_fail_points(knee_height_ok, knee_angle_ok, stationary_leg_ok, foot_angle_ok) ==
    (IF ~knee_height_ok THEN <<"KNEE_HEIGHT">> ELSE <<>>) \o
    (IF ~knee_angle_ok THEN <<"KNEE_ANGLE">> ELSE <<>>) \o
    (IF ~stationary_leg_ok THEN <<"STATIONARY_LEG">> ELSE <<>>) \o
    (IF ~foot_angle_ok THEN <<"FOOT_ANGLE">> ELSE <<>>)

get_posture_feedback(landmarks) ==
    IF ~landmarks.pose
    THEN [success_flags |-> None, fail_points |-> NoneList, angles |-> None]
    ELSE IF \E k \in HL_required_landmarks : landmarks.vis[k] < VISIBILITY_MIN
    THEN [success_flags |-> None, fail_points |-> <<"Low Visibility">>, angles |-> None]
    ELSE
    LET is_left_lifted == landmarks.y["l_knee"] < landmarks.y["r_knee"] - HIGH_LEG_Y_TOLERANCE
        is_right_lifted == landmarks.y["r_knee"] < landmarks.y["l_knee"] - HIGH_LEG_Y_TOLERANCE
    IN  IF ~(is_left_lifted \/ is_right_lifted)
        THEN [success_flags |-> None, fail_points |-> <<"No Lift">>, angles |-> None]
        ELSE
        LET a == IF is_left_lifted THEN "l" ELSE "r"
            s == IF is_left_lifted THEN "r" ELSE "l"
            active_hip == a \o "_hip"
            active_knee == a \o "_knee"
            active_ankle == a \o "_ankle"
            support_hip == s \o "_hip"
            support_knee == s \o "_knee"
            support_ankle == s \o "_ankle"
            shldr_for_active_leg == a \o "_shldr"
            active_heel == a \o "_heel"
            active_foot_index == a \o "_foot_index"
            knee_height_ok ==
                HL_knee_height_ok(landmarks.y[active_knee], landmarks.y[active_hip])
            hip_flexion_angle ==
                calculate_angle(landmarks, shldr_for_active_leg, active_hip, active_knee)
            knee_bend_angle ==
                calculate_angle(landmarks, active_hip, active_knee, active_ankle)
            knee_angle_ok == HL_knee_angle_ok(hip_flexion_angle, knee_bend_angle)
            support_knee_angle ==
                calculate_angle(landmarks, support_hip, support_knee, support_ankle)
            stationary_leg_ok == HL_stationary_leg_ok(support_knee_angle)
            foot_angle ==
                calculate_angle(landmarks, active_heel, active_ankle, active_foot_index)
            foot_angle_ok == HL_foot_angle_ok(foot_angle)
        IN  [success_flags |->
                [knee_height |-> knee_height_ok, knee_angle |-> knee_angle_ok,
                 stationary_leg |-> stationary_leg_ok, foot_angle |-> foot_angle_ok],
             fail_points |->
                HL_fail_points(knee_height_ok, knee_angle_ok, stationary_leg_ok, foot_angle_ok),
             angles |->
                [hip_flexion |-> hip_flexion_angle, knee_bend |-> knee_bend_angle,
                 support_knee |-> support_knee_angle, foot_angle |-> foot_angle]]

(***************************************************************************)
(* high_leg_march.py: analyze_high_leg_march, the frame loop               *)
(***************************************************************************)

\* The locals of analyze_high_leg_march before the first frame.  image is the
\* loop's current frame, unbound until the first cap.read() succeeds.
HL_init ==
    [knee_height_succeeded |-> FALSE,
     knee_angle_succeeded |-> FALSE,
     stationary_leg_succeeded |-> FALSE,
     foot_angle_succeeded |-> FALSE,
     best_hip_flexion_overall |-> 0,
     best_knee_bend_overall |-> 0,
     best_foot_angle_overall |-> 0,
     found_valid_pose |-> FALSE,
     best_failure_frame_image |-> NoImage,
     best_success_frame_image |-> NoImage,
     last_known_landmarks |-> NoImage,
     min_failures_in_frame |-> INF,
     best_failure_points_for_frame |-> <<>>,
     angles_for_annotation |-> None,
     image |-> NoImage]

\* Variant: each flag is the latest frame's, not the OR so far.
HL_cumulative_assign(s, success_flags) ==
    [s EXCEPT !.knee_height_succeeded = success_flags.knee_height,
              !.knee_angle_succeeded = success_flags.knee_angle,
              !.stationary_leg_succeeded = success_flags.stationary_leg,
              !.foot_angle_succeeded = success_flags.foot_angle]

\* "Update cumulative success tracking"
HL_cumulative(s, success_flags) ==
    [s EXCEPT !.knee_height_succeeded = IF success_flags.knee_height THEN TRUE ELSE @,
              !.knee_angle_succeeded = IF success_flags.knee_angle THEN TRUE ELSE @,
              !.stationary_leg_succeeded = IF success_flags.stationary_leg THEN TRUE ELSE @,
              !.foot_angle_succeeded = IF success_flags.foot_angle THEN TRUE ELSE @]

\* Variant: every zero-failure frame replaces the exemplar.
HL_success_exemplar_latest(s, n, num_failures, current_angles) ==
    IF num_failures = 0
    THEN [s EXCEPT !.best_success_frame_image = n, !.angles_for_annotation = current_angles]
    ELSE s

\* "if num_failures == 0 and best_success_frame_image is None"
HL_success_exemplar(s, n, num_failures, current_angles) ==
    IF num_failures = 0 /\ s.best_success_frame_image = NoImage
    THEN [s EXCEPT !.best_success_frame_image = n, !.angles_for_annotation = current_angles]
    ELSE s

\* Variant: the first observed angle is kept.
HL_best_first(best, current) ==
    IF best = 0 THEN current ELSE best

\* "Update best angles based on proximity to 90"
HL_best(best, current) ==
    IF best = 0 \/ Abs(current - 90) < Abs(best - 90) THEN current ELSE best

HL_best_angles(s, current_angles) ==
    [s EXCEPT !.best_hip_flexion_overall = HL_best(@, current_angles.hip_flexion),
              !.best_knee_bend_overall = HL_best(@, current_angles.knee_bend),
              !.best_foot_angle_overall = HL_best(@, current_angles.foot_angle)]

\* Variant: a tie at the minimum keeps the earlier frame.
HL_failure_exemplar_strict(s, n, current_frame_fail_points, current_angles) ==
    LET num_failures == Len(current_frame_fail_points)
    IN  IF num_failures > 0 /\ num_failures < s.min_failures_in_frame
        THEN [s EXCEPT !.min_failures_in_frame = num_failures,
                       !.best_failure_frame_image = n,
                       !.best_failure_points_for_frame = current_frame_fail_points,
                       !.angles_for_annotation = current_angles]
        ELSE s

\* "if num_failures > 0 and num_failures <= min_failures_in_frame"
HL_failure_exemplar(s, n, current_frame_fail_points, current_angles) ==
    LET num_failures == Len(current_frame_fail_points)
    IN  IF num_failures > 0 /\ num_failures <= s.min_failures_in_frame
        THEN [s EXCEPT !.min_failures_in_frame = num_failures,
                       !.best_failure_frame_image = n,
                       !.best_failure_points_for_frame = current_frame_fail_points,
                       !.angles_for_annotation = current_angles]
        ELSE s

\* Variant: a rejected frame counts as a valid pose.
HL_frame_no_skip(s, n, landmarks) ==
    LET s0 == [s EXCEPT !.image = n]
    IN  IF ~landmarks.pose THEN s0
        ELSE
        LET s1 == [s0 EXCEPT !.last_known_landmarks = n]
            fb == get_posture_feedback(landmarks)
        IN  IF fb.success_flags = None THEN [s1 EXCEPT !.found_valid_pose = TRUE]
            ELSE
            LET s2 == [s1 EXCEPT !.found_valid_pose = TRUE]
                s3 == HL_cumulative(s2, fb.success_flags)
                s4 == HL_success_exemplar(s3, n, Len(fb.fail_points), fb.angles)
                s5 == HL_best_angles(s4, fb.angles)
            IN  HL_failure_exemplar(s5, n, fb.fail_points, fb.angles)

\* One iteration of the while loop, for the n-th decoded frame of the video.
HL_frame(s, n, landmarks) ==
    LET s0 == [s EXCEPT !.image = n]
    IN  IF ~landmarks.pose THEN s0
        ELSE
        LET s1 == [s0 EXCEPT !.last_known_landmarks = n]
            fb == get_posture_feedback(landmarks)
        IN  IF fb.success_flags = None THEN s1
            ELSE
            LET s2 == [s1 EXCEPT !.found_valid_pose = TRUE]
                s3 == HL_cumulative(s2, fb.success_flags)
                s4 == HL_success_exemplar(s3, n, Len(fb.fail_points), fb.angles)
                s5 == HL_best_angles(s4, fb.angles)
            IN  HL_failure_exemplar(s5, n, fb.fail_points, fb.angles)

(***************************************************************************)
(* high_leg_march.py: analyze_high_leg_march, "Compile Final Report"       *)
(***************************************************************************)

HL_final_fail_points_overall(s) ==
    (IF ~s.knee_height_succeeded THEN <<"KNEE_HEIGHT">> ELSE <<>>) \o
    (IF ~s.knee_angle_succeeded THEN <<"KNEE_ANGLE">> ELSE <<>>) \o
    (IF ~s.stationary_leg_succeeded THEN <<"STATIONARY_LEG">> ELSE <<>>) \o
    (IF ~s.foot_angle_succeeded THEN <<"FOOT_ANGLE">> ELSE <<>>)

\* "Determine which frame to show": the frame, its failure labels, its angles.
HL_annotation(s) ==
    LET overall_correct == HL_final_fail_points_overall(s) = <<>>
    IN  IF overall_correct /\ s.best_success_frame_image # NoImage
        THEN [frame_to_use_for_annotation |-> s.best_success_frame_image,
              fail_points_for_annotation |-> <<>>,
              angles_to_display |-> s.angles_for_annotation]
        ELSE IF ~overall_correct /\ s.best_failure_frame_image # NoImage
        THEN [frame_to_use_for_annotation |-> s.best_failure_frame_image,
              fail_points_for_annotation |-> s.best_failure_points_for_frame,
              angles_to_display |-> s.angles_for_annotation]
        ELSE IF s.last_known_landmarks # NoImage /\ s.image # NoImage
        THEN [frame_to_use_for_annotation |-> s.image,
              fail_points_for_annotation |-> HL_final_fail_points_overall(s),
              angles_to_display |-> s.angles_for_annotation]
        ELSE [frame_to_use_for_annotation |-> NoImage,
              fail_points_for_annotation |-> <<>>,
              angles_to_display |-> None]

\* The returned dict.  feedback is the text report by its parts: the headline
\* (overall), the criteria named as needing attention (areas), the component
\* breakdown, the best angles printed.  image_b64_array holds the annotated image
\* by what was drawn: which frame, with which landmarks, labels and angles.
HL_report(s) ==
    IF ~s.found_valid_pose
    THEN [kind |-> "no_valid_posture", image_b64_array |-> <<>>,
          feedback |-> "Analysis Failed: No valid High Leg March posture detected."]
    ELSE
    LET final_fail_points_overall == HL_final_fail_points_overall(s)
        overall_correct == final_fail_points_overall = <<>>
        ann == HL_annotation(s)
    IN  [kind |-> "report",
         overall_correct |-> overall_correct,
         annotation |-> ann,
         feedback |->
            [overall |-> IF overall_correct THEN "PERFECT HIGH LEG MARCH POSTURE ACHIEVED"
                         ELSE "Action Required",
             areas |-> IF overall_correct THEN <<>> ELSE final_fail_points_overall,
             breakdown |->
                [knee_height |-> s.knee_height_succeeded,
                 knee_angle |-> s.knee_angle_succeeded,
                 stationary_leg |-> s.stationary_leg_succeeded,
                 foot_angle |-> s.foot_angle_succeeded],
             best |-> [hip_flexion |-> s.best_hip_flexion_overall,
                       knee_bend |-> s.best_knee_bend_overall,
                       foot_angle |-> s.best_foot_angle_overall]],
         image_b64_array |->
            IF ann.frame_to_use_for_annotation # NoImage /\ s.last_known_landmarks # NoImage
            THEN << [frame |-> ann.frame_to_use_for_annotation,
                     landmarks |-> s.last_known_landmarks,
                     fail_points |-> ann.fail_points_for_annotation,
                     angles |-> ann.angles_to_display] >>
            ELSE <<>>]

(***************************************************************************)
(* salute_analysis.py                                                      *)
(***************************************************************************)
FINGER_Y_ALIGNMENT_TOLERANCE == 80
FINGER_X_ALIGNMENT_TOLERANCE == 120
WRIST_RIGIDITY_MIN_ANGLE == 160
ELBOW_RAISE_ANGLE_RANGE == <<160, 180>>
HEAD_STABILITY_VERY_GOOD_THRESHOLD == 20
HEAD_STABILITY_MODERATE_THRESHOLD == 50

\* "if len(head_positions) > 10"
HEAD_STABILITY_MIN_SAMPLES == 10

SAL_required_landmarks ==
    {"r_ear", "r_eye_outer", "r_shoulder", "r_elbow", "r_wrist", "r_index", "nose"}

\* "1. FINGER PLACEMENT CHECK": target_x is the mean of two coordinates, so the
\* x deviation is compared doubled, |2*index_x - (eye_x + ear_x)| < 2*tolerance,
\* which is the same comparison without the half.
SAL_finger_placement_ok(y_pos_deviation, x_pos_deviation_twice) ==
    /\ y_pos_deviation < FINGER_Y_ALIGNMENT_TOLERANCE
    /\ x_pos_deviation_twice < 2 * FINGER_X_ALIGNMENT_TOLERANCE

SAL_fail_points(finger_placement_ok, hand_form_ok, elbow_raise_ok) ==
    (IF ~finger_placement_ok THEN <<"FINGER_POS">> ELSE <<>>) \o
    (IF ~hand_form_ok THEN <<"HAND_FORM">> ELSE <<>>) \o
    (IF ~elbow_raise_ok THEN <<"ELBOW_RAISE">> ELSE <<>>)

get_salute_posture_feedback(landmarks) ==
    IF ~landmarks.pose
    THEN [success_flags |-> None, fail_points |-> NoneList]
    ELSE IF \E k \in SAL_required_landmarks : landmarks.vis[k] < VISIBILITY_MIN
    THEN [success_flags |-> None, fail_points |-> <<"Low Visibility">>]
    ELSE
    LET target_y == landmarks.y["r_eye_outer"]
        target_x_twice == landmarks.x["r_eye_outer"] + landmarks.x["r_ear"]
        y_pos_deviation == Abs(landmarks.y["r_index"] - target_y)
        x_pos_deviation_twice == Abs(2 * landmarks.x["r_index"] - target_x_twice)
        finger_placement_ok == SAL_finger_placement_ok(y_pos_deviation, x_pos_deviation_twice)
        wrist_rigidity_angle == calculate_angle(landmarks, "r_elbow", "r_wrist", "r_index")
        hand_form_ok == wrist_rigidity_angle >= WRIST_RIGIDITY_MIN_ANGLE
        elbow_angle == calculate_angle(landmarks, "r_shoulder", "r_elbow", "r_wrist")
        elbow_raise_ok ==
            ELBOW_RAISE_ANGLE_RANGE[1] <= elbow_angle /\ elbow_angle <= ELBOW_RAISE_ANGLE_RANGE[2]
    IN  [success_flags |->
            [finger_placement |-> finger_placement_ok, hand_form |-> hand_form_ok,
             elbow_raise |-> elbow_raise_ok],
         fail_points |-> SAL_fail_points(finger_placement_ok, hand_form_ok, elbow_raise_ok)]

SAL_init ==
    [finger_placement_succeeded |-> FALSE,
     hand_form_succeeded |-> FALSE,
     elbow_raise_succeeded |-> FALSE,
     head_positions |-> <<>>,
     best_failure_frame_image |-> NoImage,
     best_success_frame_image |-> NoImage,
     last_known_landmarks |-> NoImage,
     min_failures_in_frame |-> INF,
     best_failure_points_for_frame |-> <<>>,
     found_valid_pose |-> FALSE,
     image |-> NoImage]

\* "Store head position if salute pose is active"
SAL_head_positions(s, landmarks) ==
    IF landmarks.vis["nose"] > VISIBILITY_MIN
    THEN [s EXCEPT !.head_positions = Append(@, <<landmarks.x["nose"], landmarks.y["nose"]>>)]
    ELSE s

\* Variant: each flag is the latest frame's, not the OR so far.
SAL_cumulative_assign(s, success_flags) ==
    [s EXCEPT !.finger_placement_succeeded = success_flags.finger_placement,
              !.hand_form_succeeded = success_flags.hand_form,
              !.elbow_raise_succeeded = success_flags.elbow_raise]

\* "Update overall success status"
SAL_cumulative(s, success_flags) ==
    [s EXCEPT !.finger_placement_succeeded = IF success_flags.finger_placement THEN TRUE ELSE @,
              !.hand_form_succeeded = IF success_flags.hand_form THEN TRUE ELSE @,
              !.elbow_raise_succeeded = IF success_flags.elbow_raise THEN TRUE ELSE @]

\* "if num_failures > 0 and num_failures < min_failures_in_frame"
SAL_failure_exemplar(s, n, current_frame_fail_points) ==
    LET num_failures == Len(current_frame_fail_points)
    IN  IF num_failures > 0 /\ num_failures < s.min_failures_in_frame
        THEN [s EXCEPT !.min_failures_in_frame = num_failures,
                       !.best_failure_frame_image = n,
                       !.best_failure_points_for_frame = current_frame_fail_points]
        ELSE s

\* Variant: every zero-failure frame replaces the exemplar.
SAL_success_exemplar_latest(s, n, num_failures) ==
    IF num_failures = 0 THEN [s EXCEPT !.best_success_frame_image = n] ELSE s

\* "if num_failures == 0 and best_success_frame_image is None"
SAL_success_exemplar(s, n, num_failures) ==
    IF num_failures = 0 /\ s.best_success_frame_image = NoImage
    THEN [s EXCEPT !.best_success_frame_image = n]
    ELSE s

\* Variant: the head position is sampled before the visibility gate.
SAL_frame_sample_first(s, n, landmarks) ==
    LET s0 == [s EXCEPT !.image = n]
    IN  IF ~landmarks.pose THEN s0
        ELSE
        LET s1 == SAL_head_positions([s0 EXCEPT !.last_known_landmarks = n], landmarks)
            fb == get_salute_posture_feedback(landmarks)
        IN  IF fb.success_flags = None THEN s1
            ELSE
            LET s2 == [s1 EXCEPT !.found_valid_pose = TRUE]
                s4 == SAL_cumulative(s2, fb.success_flags)
                s5 == SAL_failure_exemplar(s4, n, fb.fail_points)
            IN  SAL_success_exemplar(s5, n, Len(fb.fail_points))

\* One iteration of the while loop of analyze_salute, for the n-th decoded frame.
SAL_frame(s, n, landmarks) ==
    LET s0 == [s EXCEPT !.image = n]
    IN  IF ~landmarks.pose THEN s0
        ELSE
        LET s1 == [s0 EXCEPT !.last_known_landmarks = n]
            fb == get_salute_posture_feedback(landmarks)
        IN  IF fb.success_flags = None THEN s1
            ELSE
            LET s2 == [s1 EXCEPT !.found_valid_pose = TRUE]
                s3 == SAL_head_positions(s2, landmarks)
                s4 == SAL_cumulative(s3, fb.success_flags)
                s5 == SAL_failure_exemplar(s4, n, fb.fail_points)
            IN  SAL_success_exemplar(s5, n, Len(fb.fail_points))

RECURSIVE SumSeq(_)
SumSeq(q) == IF q = <<>> THEN 0 ELSE Head(q) + SumSeq(Tail(q))

\* n^2 times the population variance (np.std squared) of the coordinates q, taken
\* in hundredths: n * sum(v^2) - sum(v)^2.  The nose coordinates the model feeds
\* are multiples of 0.01, for which the division is exact.
ScaledVariance(q) ==
    LET h == [i \in 1..Len(q) |-> q[i] \div 10]
    IN  Len(q) * SumSeq([i \in 1..Len(q) |-> h[i] * h[i]]) - SumSeq(h) * SumSeq(h)

\* std_dev_x + std_dev_y <= threshold, decided exactly: with K = n * threshold
\* (in hundredths) and Vx, Vy the scaled variances, sqrt(Vx) + sqrt(Vy) <= K
\* iff Vx + Vy <= K^2 and 4 * Vx * Vy <= (K^2 - Vx - Vy)^2.
total_deviation_le(head_positions, threshold) ==
    LET K == Len(head_positions) * (threshold \div 10)
        Vx == ScaledVariance([i \in 1..Len(head_positions) |-> head_positions[i][1]])
        Vy == ScaledVariance([i \in 1..Len(head_positions) |-> head_positions[i][2]])
    IN  /\ Vx + Vy <= K * K
        /\ 4 * Vx * Vy <= (K * K - Vx - Vy) * (K * K - Vx - Vy)

\* Variant: the statistic is taken from six samples on.
SAL_head_stability_feedback_early(s) ==
    IF Len(s.head_positions) > 5
    THEN IF total_deviation_le(s.head_positions, HEAD_STABILITY_VERY_GOOD_THRESHOLD)
         THEN "Properly stable (Very Good)"
         ELSE IF total_deviation_le(s.head_positions, HEAD_STABILITY_MODERATE_THRESHOLD)
         THEN "Moderately stable (Keep improving)"
         ELSE "Moving too much (Kindly work on that)"
    ELSE IF s.found_valid_pose
    THEN "Pose held too briefly to measure"
    ELSE "Not enough data"

\* "Head Stability Calculation"
SAL_head_stability_feedback(s) ==
    IF Len(s.head_positions) > HEAD_STABILITY_MIN_SAMPLES
    THEN IF total_deviation_le(s.head_positions, HEAD_STABILITY_VERY_GOOD_THRESHOLD)
         THEN "Properly stable (Very Good)"
         ELSE IF total_deviation_le(s.head_positions, HEAD_STABILITY_MODERATE_THRESHOLD)
         THEN "Moderately stable (Keep improving)"
         ELSE "Moving too much (Kindly work on that)"
    ELSE IF s.found_valid_pose
    THEN "Pose held too briefly to measure"
    ELSE "Not enough data"

\* Variant: the final list is the failure exemplar's, not the cumulative flags'.
SAL_final_fail_points_of_exemplar(s) == s.best_failure_points_for_frame

\* "Generate Final Report": the criteria that no frame satisfied.
SAL_final_fail_points(s) ==
    (IF ~s.finger_placement_succeeded THEN <<"FINGER_POS">> ELSE <<>>) \o
    (IF ~s.hand_form_succeeded THEN <<"HAND_FORM">> ELSE <<>>) \o
    (IF ~s.elbow_raise_succeeded THEN <<"ELBOW_RAISE">> ELSE <<>>)

SAL_annotation(s) ==
    LET overall_correct == SAL_final_fail_points(s) = <<>>
    IN  IF overall_correct /\ s.best_success_frame_image # NoImage
        THEN [frame_to_use_for_annotation |-> s.best_success_frame_image,
              fail_points_for_annotation |-> <<>>]
        ELSE IF ~overall_correct /\ s.best_failure_frame_image # NoImage
        THEN [frame_to_use_for_annotation |-> s.best_failure_frame_image,
              fail_points_for_annotation |-> s.best_failure_points_for_frame]
        ELSE IF s.last_known_landmarks # NoImage /\ s.image # NoImage
        THEN [frame_to_use_for_annotation |-> s.image,
              fail_points_for_annotation |-> SAL_final_fail_points(s)]
        ELSE [frame_to_use_for_annotation |-> NoImage,
              fail_points_for_annotation |-> <<>>]

SAL_report(s) ==
    IF ~s.found_valid_pose
    THEN [kind |-> "no_valid_posture", image_b64_array |-> <<>>,
          feedback |-> "Analysis Failed: No valid salute posture detected in the video."]
    ELSE
    LET final_fail_points == SAL_final_fail_points(s)
        overall_correct == final_fail_points = <<>>
        ann == SAL_annotation(s)
    IN  [kind |-> "report",
         overall_correct |-> overall_correct,
         annotation |-> ann,
         feedback |->
            [overall |-> IF overall_correct THEN "PERFECT SALUTE POSTURE DETECTED"
                         ELSE "Action Required",
             areas |-> IF overall_correct THEN <<>> ELSE final_fail_points,
             breakdown |->
                [finger_placement |-> s.finger_placement_succeeded,
                 hand_form |-> s.hand_form_succeeded,
                 elbow_raise |-> s.elbow_raise_succeeded],
             head_stability |-> SAL_head_stability_feedback(s)],
         image_b64_array |->
            IF ann.frame_to_use_for_annotation # NoImage /\ s.last_known_landmarks # NoImage
            THEN << [frame |-> ann.frame_to_use_for_annotation,
                     landmarks |-> s.last_known_landmarks,
                     fail_points |-> ann.fail_points_for_annotation] >>
            ELSE <<>>]

(***************************************************************************)
(* turns_analysis.py                                                       *)
(***************************************************************************)
ATTENTION_ANKLE_GAP == 30
ATTENTION_KNEE_STRAIGHT == 170
KNEE_BEND_SNAP_MIN == 80
HEEL_LIFT_MIN_DIFF == 15

\* "if not snap_motion_detected and moving_knee_angle > 150"
SNAP_LIFT_REPORT_ANGLE == 150

TURN_init ==
    [final_snap_achieved |-> FALSE,
     snap_motion_detected |-> FALSE,
     heel_disengagement_detected |-> FALSE,
     best_failure_frame |-> NoImage,
     best_success_frame |-> NoImage,
     min_failures |-> INF,
     last_known_landmarks |-> NoImage]

\* Variant: any frame with a pose counts as a heel disengagement.
TURN_heel_check_any(s, moving_toe_y, moving_heel_y) ==
    [s EXCEPT !.heel_disengagement_detected = TRUE]

\* "1. HEEL DISENGAGEMENT CHECK (Initial Pivot)"
TURN_heel_check(s, moving_toe_y, moving_heel_y) ==
    IF moving_toe_y - moving_heel_y > HEEL_LIFT_MIN_DIFF
    THEN [s EXCEPT !.heel_disengagement_detected = TRUE]
    ELSE s

\* Variant: the snap is detected whatever the moving knee's angle.
TURN_snap_check_any(s, moving_knee_angle) ==
    [s EXCEPT !.snap_motion_detected = TRUE]

\* "2. SNAP MOTION CHECK (Active Knee Bend)"
TURN_snap_check(s, moving_knee_angle) ==
    IF moving_knee_angle < KNEE_BEND_SNAP_MIN
    THEN [s EXCEPT !.snap_motion_detected = TRUE]
    ELSE s

\* "3. FINAL SNAP TO ATTENTION CHECK"
TURN_final_check(s, legs_straight, ankles_together) ==
    IF legs_straight /\ ankles_together
    THEN [s EXCEPT !.final_snap_achieved = TRUE]
    ELSE s

\* Variant: snap lift and final position are judged on the frame alone.
TURN_frame_fail_points_frame_only(s, moving_knee_angle, legs_straight, ankles_together) ==
    (IF ~s.heel_disengagement_detected THEN <<"HEEL_DISENGAGE">> ELSE <<>>) \o
    (IF moving_knee_angle > SNAP_LIFT_REPORT_ANGLE THEN <<"SNAP_LIFT">> ELSE <<>>) \o
    (IF ~legs_straight \/ ~ankles_together THEN <<"FINAL_POS">> ELSE <<>>)

\* current_frame_fail_points, built from the flags as they stand after the checks.
TURN_frame_fail_points(s, moving_knee_angle, legs_straight, ankles_together) ==
    (IF ~s.heel_disengagement_detected THEN <<"HEEL_DISENGAGE">> ELSE <<>>) \o
    (IF ~s.snap_motion_detected /\ moving_knee_angle > SNAP_LIFT_REPORT_ANGLE
     THEN <<"SNAP_LIFT">> ELSE <<>>) \o
    (IF ~s.final_snap_achieved /\ (~legs_straight \/ ~ankles_together)
     THEN <<"FINAL_POS">> ELSE <<>>)

\* "VISUAL FRAME CAPTURE LOGIC"
TURN_capture(s, n, num_failures) ==
    LET s1 == IF num_failures = 0 THEN [s EXCEPT !.best_success_frame = n] ELSE s
    IN  IF num_failures > 0 /\ (s1.best_failure_frame = NoImage \/ num_failures > s1.min_failures)
        THEN [s1 EXCEPT !.min_failures = num_failures, !.best_failure_frame = n]
        ELSE s1

\* The checks of one frame with pose landmarks: the locals after them (s) and the
\* frame's current_frame_fail_points.
TURN_checks(s, n, lm, is_right_turn) ==
    LET m == IF is_right_turn THEN "l" ELSE "r"
        st == IF is_right_turn THEN "r" ELSE "l"
        moving_heel_y == lm.y[m \o "_heel"]
        moving_toe_y == lm.y[m \o "_foot_index"]
        moving_hip == m \o "_hip"
        moving_knee == m \o "_knee"
        moving_ankle == m \o "_ankle"
        stationary_hip == st \o "_hip"
        stationary_knee == st \o "_knee"
        stationary_ankle == st \o "_ankle"
        s0 == [s EXCEPT !.last_known_landmarks = n]
        s1 == TURN_heel_check(s0, moving_toe_y, moving_heel_y)
        moving_knee_angle == calculate_angle(lm, moving_hip, moving_knee, moving_ankle)
        s2 == TURN_snap_check(s1, moving_knee_angle)
        stationary_straight ==
            calculate_angle(lm, stationary_hip, stationary_knee, stationary_ankle)
                > ATTENTION_KNEE_STRAIGHT
        moving_straight ==
            calculate_angle(lm, moving_hip, moving_knee, moving_ankle) > ATTENTION_KNEE_STRAIGHT
        legs_straight == stationary_straight /\ moving_straight
        ankles_together == Abs(lm.x["r_ankle"] - lm.x["l_ankle"]) < ATTENTION_ANKLE_GAP
        s3 == TURN_final_check(s2, legs_straight, ankles_together)
        current_frame_fail_points ==
            TURN_frame_fail_points(s3, moving_knee_angle, legs_straight, ankles_together)
    IN  [s |-> s3, current_frame_fail_points |-> current_frame_fail_points]

\* current_frame_fail_points of the n-th frame: reset to [] on every iteration.
TURN_current_frame_fail_points(s, n, lm, is_right_turn) ==
    IF ~lm.pose THEN <<>>
    ELSE TURN_checks(s, n, lm, is_right_turn).current_frame_fail_points

\* One iteration of the while loop of analyze_turn_logic, for the n-th decoded frame.
TURN_frame(s, n, lm, is_right_turn) ==
    IF ~lm.pose THEN s
    ELSE LET c == TURN_checks(s, n, lm, is_right_turn)
         IN  TURN_capture(c.s, n, Len(c.current_frame_fail_points))

TURN_overall_correct(s) ==
    s.heel_disengagement_detected /\ s.snap_motion_detected /\ s.final_snap_achieved

TURN_final_fail_points(s) ==
    IF TURN_overall_correct(s) THEN <<>>
    ELSE (IF ~s.heel_disengagement_detected THEN <<"HEEL_DISENGAGE">> ELSE <<>>) \o
         (IF ~s.snap_motion_detected THEN <<"SNAP_LIFT">> ELSE <<>>) \o
         (IF ~s.final_snap_achieved THEN <<"FINAL_POS">> ELSE <<>>)

\* "IMAGE COMPILATION AND ENCODING" and "FINAL TEXT REPORT GENERATION"
TURN_report(s) ==
    LET frame_to_use ==
            IF TURN_overall_correct(s) THEN s.best_success_frame ELSE s.best_failure_frame
        final_fail_points == TURN_final_fail_points(s)
    IN  [kind |-> "report",
         overall_correct |-> TURN_overall_correct(s),
         feedback |->
            [overall |-> IF TURN_overall_correct(s) THEN "TURN EXECUTED CORRECTLY"
                         ELSE "TURN EXECUTION FAILED",
             breakdown |->
                [heel_disengagement |-> s.heel_disengagement_detected,
                 snap_motion |-> s.snap_motion_detected,
                 final_position |-> s.final_snap_achieved]],
         image_b64_array |->
            IF frame_to_use # NoImage /\ s.last_known_landmarks # NoImage
            THEN << [frame |-> frame_to_use,
                     landmarks |-> s.last_known_landmarks,
                     fail_points |-> final_fail_points] >>
            ELSE <<>>]

(***************************************************************************)
(* Landmark frames the pose estimator can return (model.process(image)).   *)
(* "core" frames are the ones multi-frame videos are made of: one per      *)
(* combination of passed and failed checks, and one per way of being       *)
(* unusable.  "all" adds the values on both sides of every threshold.      *)
(***************************************************************************)

\* The bearing of the mirror image of a segment (the cadet facing the other way).
Mirror(b) == Norm(180 - b)

Other(side) == IF side = "l" THEN "r" ELSE "l"

\* A high-leg-march posture: leg `side` lifted with its knee dh below its hip,
\* the given hip-flexion, knee-bend, support-knee and foot angles.  The cadet
\* faces right when the left leg is lifted, left when the right leg is.
HLPose(side, dh, hipflex, kneebend, support, foot) ==
    LET a == side
        s == Other(side)
        F(b) == IF side = "l" THEN Norm(b) ELSE Mirror(b)
        thigh == IF dh = 0 THEN 0 ELSE IF dh > 0 THEN 12 ELSE -30
    IN  [pose |-> TRUE,
         vis |-> [k \in HL_required_landmarks |-> 90],
         y |-> ((a \o "_knee") :> (500 + dh)) @@ ((a \o "_hip") :> 500) @@
               ((s \o "_knee") :> 700) @@ ((s \o "_hip") :> 500),
         brg |->
            (<<a \o "_hip", a \o "_knee">> :> F(thigh)) @@
            (<<a \o "_hip", a \o "_shldr">> :> F(thigh - hipflex)) @@
            (<<a \o "_knee", a \o "_ankle">> :> F(thigh + 180 - kneebend)) @@
            (<<a \o "_ankle", a \o "_heel">> :> F(180)) @@
            (<<a \o "_ankle", a \o "_foot_index">> :> F(180 - foot)) @@
            (<<s \o "_hip", s \o "_knee">> :> F(90)) @@
            (<<s \o "_hip", s \o "_shldr">> :> F(-90)) @@
            (<<s \o "_knee", s \o "_ankle">> :> F(-90 + support)) @@
            (<<s \o "_ankle", s \o "_heel">> :> F(180)) @@
            (<<s \o "_ankle", s \o "_foot_index">> :> F(0))]

\* Hip-flexion 90, knee-bend 90, support-knee 175, foot-angle 90, knee at hip level.
HLPerfect == HLPose("l", 0, 90, 90, 175, 90)

\* Standing or nearly so: the left knee `lift` above the right one.
HLStand(lift) ==
    [HLPerfect EXCEPT !.y = [@ EXCEPT !["l_knee"] = 700 - lift],
                      !.brg = [@ EXCEPT ![<<"l_hip", "l_knee">>] = 90,
                                        ![<<"l_knee", "l_ankle">>] = 90]]

HLLowVisibility(k, v) == [HLPerfect EXCEPT !.vis = [@ EXCEPT ![k] = v]]

HLNoPose == [HLPerfect EXCEPT !.pose = FALSE]

CoreHLFrames ==
    { HLPose("l", dh, hf, 90, su, fo) :
        dh \in {0, 41}, hf \in {90, 60}, su \in {175, 160}, fo \in {90, 50} }
    \cup { HLPose("r", 0, 100, 100, 180, 100), HLStand(0),
           HLLowVisibility("l_heel", 40), HLNoPose,
           HLPose("l", 0, 0, 0, 175, 0), HLPose("l", 0, 180, 180, 175, 180) }

AllHLFrames ==
    CoreHLFrames
    \cup { HLPose(sd, dh, hf, kb, su, fo) :
            sd \in {"l", "r"}, dh \in {0, 40, 41}, hf \in {79, 80, 90, 120, 121},
            kb \in {79, 80, 110, 111}, su \in {170, 171, 175}, fo \in {69, 70, 110, 111} }
    \cup { HLStand(lift) : lift \in {-41, -40, 0, 40, 41} }
    \cup { HLLowVisibility(k, v) : k \in HL_required_landmarks, v \in {49, 50} }

\* A salute posture: the index finger (dx, dy) off the target, the given wrist
\* and elbow angles, the nose at (nx, ny) with visibility nv.
SalPose(dx, dy, wrist, elbow, nx, ny, nv) ==
    [pose |-> TRUE,
     vis |-> [k \in SAL_required_landmarks |-> IF k = "nose" THEN nv ELSE 90],
     x |-> ("r_eye_outer" :> 500) @@ ("r_ear" :> 540) @@ ("r_index" :> 520 + dx) @@
           ("nose" :> nx),
     y |-> ("r_eye_outer" :> 300) @@ ("r_index" :> 300 + dy) @@ ("nose" :> ny),
     brg |->
        (<<"r_wrist", "r_elbow">> :> 150) @@
        (<<"r_wrist", "r_index">> :> Norm(150 + wrist)) @@
        (<<"r_elbow", "r_shoulder">> :> Norm(-30 - elbow))]

SalPerfect == SalPose(0, 0, 170, 170, 460, 320, 90)

SalLowVisibility(k, v) == [SalPerfect EXCEPT !.vis = [@ EXCEPT ![k] = v]]

SalNoPose == [SalPerfect EXCEPT !.pose = FALSE]

CoreSalFrames ==
    { SalPose(0, dy, wr, el, 460, 320, 90) :
        dy \in {0, 150}, wr \in {170, 120}, el \in {170, 100} }
    \cup { SalPose(0, 0, 170, 170, 480, 320, 90), SalPose(0, 0, 170, 170, 460, 320, 50),
           SalLowVisibility("r_wrist", 40), SalNoPose }

AllSalFrames ==
    CoreSalFrames
    \cup { SalPose(dx, dy, wr, el, 460, 320, 90) :
            dx \in {-120, 0, 119, 120, 121}, dy \in {-80, 0, 79, 80, 81},
            wr \in {159, 160, 180}, el \in {159, 160, 180} }
    \cup { SalLowVisibility(k, v) : k \in SAL_required_landmarks, v \in {49, 50, 51} }

\* "Landmark Extraction": the landmarks analyze_turn_logic reads.
TURN_landmarks ==
    {"r_hip", "l_hip", "r_ankle", "l_ankle", "r_knee", "l_knee",
     "r_heel", "l_heel", "r_foot_index", "l_foot_index"}

\* A turn posture: toe-y minus heel-y of the left and of the right foot, the
\* knee angle of the left and of the right leg, the gap between the ankles.
TurnPose(heel_l, heel_r, knee_l, knee_r, gap) ==
    [pose |-> TRUE,
     vis |-> [k \in TURN_landmarks |-> 90],
     x |-> ("l_ankle" :> 500 + gap) @@ ("r_ankle" :> 500),
     y |-> ("l_heel" :> 900) @@ ("l_foot_index" :> 900 + heel_l) @@
           ("r_heel" :> 900) @@ ("r_foot_index" :> 900 + heel_r),
     brg |->
        (<<"l_hip", "l_knee">> :> 90) @@ (<<"l_knee", "l_ankle">> :> Norm(-90 + knee_l)) @@
        (<<"r_hip", "r_knee">> :> 90) @@ (<<"r_knee", "r_ankle">> :> Norm(-90 - knee_r))]

TurnNoPose == [TurnPose(0, 0, 180, 180, 10) EXCEPT !.pose = FALSE]

\* A turn posture with the heel lifted and the knee bent on both sides, landmark k
\* at visibility v.
TurnLowVisibility(k, v) == [TurnPose(16, 16, 70, 70, 10) EXCEPT !.vis = [@ EXCEPT ![k] = v]]

CoreTurnFrames ==
    { TurnPose(h, h, k[1], k[2], 10) :
        h \in {15, 16}, k \in {<<70, 175>>, <<175, 70>>, <<160, 160>>, <<175, 175>>} }
    \cup { TurnPose(15, 15, 175, 175, 40), TurnPose(40, 0, 175, 175, 10),
           TurnPose(0, 40, 175, 175, 10), TurnNoPose, TurnLowVisibility("l_knee", 40) }

AllTurnFrames ==
    CoreTurnFrames
    \cup { TurnPose(hl_, hr_, kl, kr, gap) :
            hl_ \in {15, 16}, hr_ \in {15, 16}, kl \in {79, 80, 150, 151, 170, 171},
            kr \in {79, 170, 171}, gap \in {-30, 29, 30} }

Drills == {"high_leg_march", "salute", "turn_right", "turn_left"}

\* The frames of a long video: a perfect salute, a salute failing every criterion
\* with the nose 0.12 to the side, and a salute with a bent wrist and the nose at
\* visibility 0.5.
LongSalFrames ==
    { SalPerfect, SalPose(0, 150, 120, 100, 580, 320, 90), SalPose(0, 0, 120, 170, 460, 320, 50) }

LongHLFrames == { HLPerfect }

LongTurnFrames == { TurnPose(16, 16, 70, 175, 10) }

Frames(d, kind) ==
    IF kind = "live" THEN {input_data.frame}
    ELSE IF d = "high_leg_march"
    THEN (IF kind = "core" THEN CoreHLFrames
          ELSE IF kind = "long" THEN LongHLFrames ELSE AllHLFrames)
    ELSE IF d = "salute"
    THEN (IF kind = "core" THEN CoreSalFrames
          ELSE IF kind = "long" THEN LongSalFrames ELSE AllSalFrames)
    ELSE (IF kind = "core" THEN CoreTurnFrames
          ELSE IF kind = "long" THEN LongTurnFrames ELSE AllTurnFrames)

(***************************************************************************)
(* One analysis request: open the video, fold its frames, report.          *)
(***************************************************************************)

NoResult == [kind |-> "none"]

(***************************************************************************)
(* The MediaPipe model handle: the module global "pose".                   *)
(***************************************************************************)

\* The request threads of the concurrent scenario, and the frames each feeds.
NumThreads == 2
MaxThreadFrames == 2

Sessions == 1..NumThreads

\* The session of a request that runs alone.
ThisSession == 1

\* Who created the handle of turns_analysis.py: the import of the module.
AtImport == 0

\* "pose" once the drill's module is imported: high_leg_march.py and
\* salute_analysis.py have "pose = None", turns_analysis.py creates the model.
ModulePose(d) ==
    IF d \in {"turn_right", "turn_left"} THEN [created_by |-> AtImport] ELSE None

\* No frame has been fed to any handle.
NoTracking == [h \in {AtImport} \cup Sessions |-> {}]

\* _get_pose_model(), run without interruption by session t.
get_pose_model(p, t) == IF p = None THEN [created_by |-> t] ELSE p

\* model.process(image) by session t: the handle is not in static_image_mode, so
\* it tracks landmarks from frame to frame and keeps the state in the handle.
process(tr, handle, t) == [tr EXCEPT ![handle.created_by] = @ \cup {t}]

\* No call of calculate_angle or of execute_analysis is under study, and the
\* request runs alone in a process that has just imported the drill modules.
OtherIdle ==
    /\ points = None
    /\ drill_types = <<>>
    /\ all_results = <<>>
    /\ returned = NoResult
    /\ pose = ModulePose(drill)
    /\ tracked = NoTracking
    /\ threads = <<>>

\* input_data = {'video_path': ...}: the upload route.
VideoInput == [kind |-> "video_path"]

\* input_data = {'frame': ...}: the live route, with the webcam frame.
FrameInput(f) == [kind |-> "frame", frame |-> f]

\* app.py, execute_analysis: "for _ in range(5): out.write(...)".
LIVE_TURN_FRAMES == 5

\* "fail_points or []"
OrEmpty(fail_points) == IF fail_points = NoneList THEN <<>> ELSE fail_points

\* Variant: the live verdict is taken from the knee-height flag alone.
analyze_high_leg_frame_knee_height_only(landmarks) ==
    IF ~landmarks.pose
    THEN [kind |-> "live", image_b64_array |-> <<>>,
          feedback |-> [text |-> "No cadet detected in the frame.", labels |-> <<>>]]
    ELSE
    LET fb == get_posture_feedback(landmarks)
    IN  IF fb.success_flags = None
        THEN [kind |-> "live",
              image_b64_array |-> << [frame |-> 1, landmarks |-> 1,
                                      fail_points |-> OrEmpty(fb.fail_points),
                                      angles |-> None] >>,
              feedback |-> [text |-> "Posture: Unknown Issue", labels |-> <<>>]]
        ELSE [kind |-> "live",
              image_b64_array |-> << [frame |-> 1, landmarks |-> 1,
                                      fail_points |-> fb.fail_points,
                                      angles |-> fb.angles] >>,
              feedback |->
                 [text |-> IF fb.success_flags.knee_height THEN "Perfect Posture!" ELSE "Error!",
                  labels |-> fb.fail_points]]

\* high_leg_march.py: analyze_high_leg_frame, on the landmarks model.process found.
analyze_high_leg_frame(landmarks) ==
    IF ~landmarks.pose
    THEN [kind |-> "live", image_b64_array |-> <<>>,
          feedback |-> [text |-> "No cadet detected in the frame.", labels |-> <<>>]]
    ELSE
    LET fb == get_posture_feedback(landmarks)
    IN  IF fb.success_flags = None
        THEN [kind |-> "live",
              image_b64_array |-> << [frame |-> 1, landmarks |-> 1,
                                      fail_points |-> OrEmpty(fb.fail_points),
                                      angles |-> None] >>,
              feedback |->
                 [text |-> IF fb.fail_points = <<"Low Visibility">> THEN "Posture: Low Visibility"
                           ELSE IF fb.fail_points = <<"No Lift">> THEN "Posture: Standby/Relax"
                           ELSE "Posture: Unknown Issue",
                  labels |-> <<>>]]
        ELSE [kind |-> "live",
              image_b64_array |-> << [frame |-> 1, landmarks |-> 1,
                                      fail_points |-> fb.fail_points,
                                      angles |-> fb.angles] >>,
              feedback |->
                 [text |-> IF fb.fail_points = <<>> THEN "Perfect Posture!" ELSE "Error!",
                  labels |-> fb.fail_points]]

\* salute_analysis.py: analyze_salute_frame, on the landmarks model.process found.
analyze_salute_frame(landmarks) ==
    IF ~landmarks.pose
    THEN [kind |-> "live", image_b64_array |-> <<>>,
          feedback |-> [text |-> "No cadet detected in the frame.", labels |-> <<>>]]
    ELSE
    LET fb == get_salute_posture_feedback(landmarks)
    IN  IF fb.success_flags = None
        THEN [kind |-> "live",
              image_b64_array |-> << [frame |-> 1, landmarks |-> 1,
                                      fail_points |-> OrEmpty(fb.fail_points)] >>,
              feedback |->
                 [text |-> IF fb.fail_points = <<"Low Visibility">> THEN "Posture: Low Visibility"
                           ELSE "Posture: Standby/Relax",
                  labels |-> <<>>]]
        ELSE [kind |-> "live",
              image_b64_array |-> << [frame |-> 1, landmarks |-> 1,
                                      fail_points |-> fb.fail_points] >>,
              feedback |->
                 [text |-> IF fb.fail_points = <<>> THEN "Perfect Salute!" ELSE "Error!",
                  labels |-> fb.fail_points]]

\* Before the first frame with pose landmarks the per-frame locals are unbound.
NoFeedback == [success_flags |-> None, fail_points |-> NoneList]

Init ==
    /\ drill \in Drills
    /\ pc = "open"
    /\ cap = [left |-> MaxFrames, kind |-> "core"]
    /\ hist = <<>>
    /\ cur = NoFeedback
    /\ hl = HL_init
    /\ sal = SAL_init
    /\ turn = TURN_init
    /\ result = NoResult
    /\ input_data = VideoInput
    /\ OtherIdle

\* A video of one frame, which may be any frame.
InitOneFrame ==
    /\ drill \in Drills
    /\ pc = "open"
    /\ cap = [left |-> 1, kind |-> "all"]
    /\ hist = <<>>
    /\ cur = NoFeedback
    /\ hl = HL_init
    /\ sal = SAL_init
    /\ turn = TURN_init
    /\ result = NoResult
    /\ input_data = VideoInput
    /\ OtherIdle

\* A long video of few kinds of frame.
InitLong ==
    /\ drill \in Drills
    /\ pc = "open"
    /\ cap = [left |-> MaxLongFrames, kind |-> "long"]
    /\ hist = <<>>
    /\ cur = NoFeedback
    /\ hl = HL_init
    /\ sal = SAL_init
    /\ turn = TURN_init
    /\ result = NoResult
    /\ input_data = VideoInput
    /\ OtherIdle

\* A live request: execute_analysis is entered with the webcam frame.
InitLive ==
    /\ drill \in Drills
    /\ pc = "execute"
    /\ cap = [left |-> 0, kind |-> "none"]
    /\ hist = <<>>
    /\ cur = NoFeedback
    /\ hl = HL_init
    /\ sal = SAL_init
    /\ turn = TURN_init
    /\ result = NoResult
    /\ input_data \in {FrameInput(f) : f \in Frames(drill, "all")}
    /\ OtherIdle

\* execute_analysis, branch 3 with 'high_leg_march': analyze_high_leg_frame.
HLLive ==
    /\ pc = "execute" /\ drill = "high_leg_march" /\ input_data.kind = "frame"
    /\ result' = analyze_high_leg_frame(input_data.frame)
    /\ pc' = "done"
    /\ UNCHANGED <<input_data, drill, cap, hist, cur, hl, sal, turn>>
    /\ pose' = get_pose_model(pose, ThisSession)
    /\ tracked' = process(tracked, pose', ThisSession)
    /\ UNCHANGED <<callVars, threads>>

\* execute_analysis, branch 3 with 'salute': analyze_salute_frame.
SalLive ==
    /\ pc = "execute" /\ drill = "salute" /\ input_data.kind = "frame"
    /\ result' = analyze_salute_frame(input_data.frame)
    /\ pc' = "done"
    /\ UNCHANGED <<input_data, drill, cap, hist, cur, hl, sal, turn>>
    /\ pose' = get_pose_model(pose, ThisSession)
    /\ tracked' = process(tracked, pose', ThisSession)
    /\ UNCHANGED <<callVars, threads>>

\* execute_analysis, branch 1: a turn key with a live frame.  The frame is written
\* five times into a temporary video, on which the video analyzer is then called.
TurnLive ==
    /\ pc = "execute" /\ drill \in {"turn_right", "turn_left"} /\ input_data.kind = "frame"
    /\ cap' = [left |-> LIVE_TURN_FRAMES, kind |-> "live"]
    /\ pc' = "open"
    /\ UNCHANGED <<input_data, drill, hist, cur, hl, sal, turn, result>>
    /\ UNCHANGED otherVars

\* cap.isOpened() is true: the locals are initialised and the loop is entered.
OpenVideo ==
    /\ pc = "open"
    /\ pc' = "loop"
    /\ UNCHANGED <<input_data, drill, cap, hist, cur, hl, sal, turn, result>>
    /\ pose' = IF drill \in {"high_leg_march", "salute"}
               THEN get_pose_model(pose, ThisSession) ELSE pose
    /\ UNCHANGED <<callVars, tracked, threads>>

\* "if not cap.isOpened(): return ..."
OpenFails ==
    /\ pc = "open"
    /\ pc' = "done"
    /\ result' = [kind |-> "open_error", image_b64_array |-> <<>>,
                  feedback |-> IF drill \in {"high_leg_march", "salute"}
                               THEN "Error: Video file not found or corrupted."
                               ELSE "Error: Could not open video file"]
    /\ UNCHANGED <<input_data, drill, cap, hist, cur, hl, sal, turn>>
    /\ pose' = IF drill \in {"high_leg_march", "salute"}
               THEN get_pose_model(pose, ThisSession) ELSE pose
    /\ UNCHANGED <<callVars, tracked, threads>>

\* cap.read() returns a frame: one iteration of analyze_high_leg_march's loop.
HLFrame ==
    /\ pc = "loop" /\ drill = "high_leg_march" /\ cap.left > 0
    /\ \E f \in Frames(drill, cap.kind) :
        /\ hl' = HL_frame(hl, Len(hist) + 1, f)
        /\ cur' = IF f.pose THEN get_posture_feedback(f) ELSE cur
        /\ hist' = Append(hist, f)
    /\ cap' = [cap EXCEPT !.left = @ - 1]
    /\ UNCHANGED <<input_data, drill, pc, sal, turn, result>>
    /\ tracked' = process(tracked, pose, ThisSession)
    /\ UNCHANGED <<callVars, pose, threads>>

\* cap.read() returns no frame: the loop ends and the report is compiled.
HLFinalize ==
    /\ pc = "loop" /\ drill = "high_leg_march"
    /\ result' = HL_report(hl)
    /\ pc' = "done"
    /\ UNCHANGED <<input_data, drill, cap, hist, cur, hl, sal, turn>>
    /\ UNCHANGED otherVars

SalFrame ==
    /\ pc = "loop" /\ drill = "salute" /\ cap.left > 0
    /\ \E f \in Frames(drill, cap.kind) :
        /\ sal' = SAL_frame(sal, Len(hist) + 1, f)
        /\ cur' = IF f.pose THEN get_salute_posture_feedback(f) ELSE cur
        /\ hist' = Append(hist, f)
    /\ cap' = [cap EXCEPT !.left = @ - 1]
    /\ UNCHANGED <<input_data, drill, pc, hl, turn, result>>
    /\ tracked' = process(tracked, pose, ThisSession)
    /\ UNCHANGED <<callVars, pose, threads>>

SalFinalize ==
    /\ pc = "loop" /\ drill = "salute"
    /\ result' = SAL_report(sal)
    /\ pc' = "done"
    /\ UNCHANGED <<input_data, drill, cap, hist, cur, hl, sal, turn>>
    /\ UNCHANGED otherVars

TurnFrame ==
    /\ pc = "loop" /\ drill \in {"turn_right", "turn_left"} /\ cap.left > 0
    /\ \E f \in Frames(drill, cap.kind) :
        /\ turn' = TURN_frame(turn, Len(hist) + 1, f, drill = "turn_right")
        /\ cur' = [success_flags |-> None,
                   fail_points |->
                      TURN_current_frame_fail_points(turn, Len(hist) + 1, f,
                                                     drill = "turn_right")]
        /\ hist' = Append(hist, f)
    /\ cap' = [cap EXCEPT !.left = @ - 1]
    /\ UNCHANGED <<input_data, drill, pc, hl, sal, result>>
    /\ tracked' = process(tracked, pose, ThisSession)
    /\ UNCHANGED <<callVars, pose, threads>>

TurnFinalize ==
    /\ pc = "loop" /\ drill \in {"turn_right", "turn_left"}
    /\ cap.kind = "live" => cap.left = 0
    /\ result' = TURN_report(turn)
    /\ pc' = "done"
    /\ UNCHANGED <<input_data, drill, cap, hist, cur, hl, sal, turn>>
    /\ UNCHANGED otherVars

Next ==
    \/ OpenVideo
    \/ OpenFails
    \/ HLFrame
    \/ HLFinalize
    \/ SalFrame
    \/ SalFinalize
    \/ TurnFrame
    \/ TurnFinalize

Spec == Init /\ [][Next]_vars

SpecOneFrame == InitOneFrame /\ [][Next]_vars

SpecLong == InitLong /\ [][Next]_vars

\* The live route: the frame analyzers, and the turn analyzer on the temporary video.
NextLive ==
    \/ HLLive
    \/ SalLive
    \/ TurnLive
    \/ OpenVideo
    \/ OpenFails
    \/ TurnFrame
    \/ TurnFinalize

SpecLive == InitLive /\ [][NextLive]_vars

(***************************************************************************)
(* pose_utils.py: calculate_angle on points of a small grid.               *)
(***************************************************************************)

\* The largest coordinate of a grid point.
GridMax == 2

GridPoints == [x : 0..GridMax, y : 0..GridMax]

\* math.degrees(math.atan(ady / adx)) for ady, adx >= 0, to the nearest degree;
\* math.atan2(0, 0) is 0.
AtanDeg(ady, adx) ==
    IF ady = 0 THEN 0
    ELSE IF adx = 0 THEN 90
    ELSE IF ady = adx THEN 45
    ELSE CASE <<ady, adx>> = <<1, 2>> -> 27
           [] <<ady, adx>> = <<2, 1>> -> 63
           [] <<ady, adx>> = <<1, 3>> -> 18
           [] <<ady, adx>> = <<3, 1>> -> 72
           [] <<ady, adx>> = <<2, 3>> -> 34
           [] <<ady, adx>> = <<3, 2>> -> 56

\* math.degrees(math.atan2(dy, dx)) on grid differences, in -179..180.
Atan2Grid(dy, dx) ==
    LET t == AtanDeg(Abs(dy), Abs(dx))
    IN  IF dx >= 0 THEN (IF dy >= 0 THEN t ELSE -t)
        ELSE (IF dy >= 0 THEN 180 - t ELSE t - 180)

\* The two bearings calculate_angle takes, for the points p.a, p.b, p.c.
PointLandmarks(p) ==
    [brg |-> (<<"b", "c">> :> Atan2Grid(p.c.y - p.b.y, p.c.x - p.b.x)) @@
             (<<"b", "a">> :> Atan2Grid(p.a.y - p.b.y, p.a.x - p.b.x))]

\* No analysis request is under way.
NoRequest ==
    /\ drill = "none"
    /\ pc = "idle"
    /\ cap = [left |-> 0, kind |-> "none"]
    /\ hist = <<>>
    /\ cur = NoFeedback
    /\ hl = HL_init
    /\ sal = SAL_init
    /\ turn = TURN_init
    /\ result = NoResult
    /\ pose = None
    /\ tracked = NoTracking
    /\ threads = <<>>

\* calculate_angle is about to be called on three points of the grid.
InitAngle ==
    /\ NoRequest
    /\ input_data = VideoInput
    /\ points \in [a : GridPoints, b : GridPoints, c : GridPoints]
    /\ drill_types = <<>>
    /\ all_results = <<>>
    /\ returned = NoResult

\* The call returns; math.atan2 and math.degrees raise on no pair of floats.
CalculateAngle ==
    /\ points # None /\ returned = NoResult
    /\ returned' = [kind |-> "return",
                    value |-> calculate_angle(PointLandmarks(points), "a", "b", "c")]
    /\ UNCHANGED <<drill, pc, cap, hist, cur, hl, sal, turn, result, input_data, points>>
    /\ UNCHANGED <<drill_types, all_results, pose, tracked, threads>>

NextAngle == CalculateAngle

SpecAngle == InitAngle /\ [][NextAngle]_vars

(***************************************************************************)
(* app.py: execute_analysis over a list of drill keys.                     *)
(***************************************************************************)

\* The longest list of requested drill keys.
MaxKeys == 3

\* The keys a request may carry: keys of the analysis map, and one that is not.
RequestKeys == {"salute", "turn_right", "march_past"}

\* input_data with neither 'video_path' nor 'frame'.
InvalidInput == [kind |-> "invalid"]

\* What analysis_function(...) can return for the n-th key: a report with or
\* without an annotated image (the image is named after the key's position).
AnalysisOutputs(n) ==
    { [feedback |-> "report", image_b64_array |-> <<>>],
      [feedback |-> "report", image_b64_array |-> <<n>>] }

\* The dict execute_analysis appends to all_results for drill_key, the n-th key.
ResultsFor(drill_key, n) ==
    IF drill_key \in Drills
    THEN { [drill_key |-> drill_key,
            feedback |-> analysis_output.feedback,
            image_b64_array |-> analysis_output.image_b64_array] :
           analysis_output \in
              IF input_data = InvalidInput
              THEN { [feedback |-> "Error: Invalid analysis input structure.",
                      image_b64_array |-> <<>>] }
              ELSE AnalysisOutputs(n) }
    ELSE { [drill_key |-> drill_key,
            feedback |-> "Error: Analysis function not found."] }

\* One iteration of "for result in all_results": the section is added, then
\* "if final_image_b64 is None and result['image_b64_array']" reads the image
\* list, which raises KeyError on a dict that has no such key.
compile_step(acc, r) ==
    IF acc.kind = "raise" THEN acc
    ELSE IF acc.final_image_b64 = NoImage /\ "image_b64_array" \notin DOMAIN r
    THEN [kind |-> "raise", exception |-> "KeyError"]
    ELSE [kind |-> "return",
          final_text_report |->
              Append(acc.final_text_report,
                     [drill_key |-> r.drill_key, feedback |-> r.feedback]),
          final_image_b64 |->
              IF acc.final_image_b64 = NoImage /\ r.image_b64_array # <<>>
              THEN r.image_b64_array[1] ELSE acc.final_image_b64]

\* "Compile final report": the loop over all_results and the return.
RECURSIVE compile_final_report(_, _)
compile_final_report(acc, results) ==
    IF results = <<>> THEN acc
    ELSE compile_final_report(compile_step(acc, Head(results)), Tail(results))

RECURSIVE SeqsUpTo(_, _)
SeqsUpTo(S, n) ==
    IF n = 0 THEN {<<>>}
    ELSE LET shorter == SeqsUpTo(S, n - 1)
         IN  shorter \cup { Append(q, k) : q \in shorter, k \in S }

\* execute_analysis is entered with a list of drill keys.
InitExec ==
    /\ NoRequest
    /\ input_data \in {VideoInput, InvalidInput}
    /\ points = None
    /\ drill_types \in SeqsUpTo(RequestKeys, MaxKeys)
    /\ all_results = <<>>
    /\ returned = NoResult

\* One iteration of "for drill_key in drill_types".
ExecAnalyze ==
    /\ returned = NoResult /\ Len(all_results) < Len(drill_types)
    /\ \E r \in ResultsFor(drill_types[Len(all_results) + 1], Len(all_results) + 1) :
          all_results' = Append(all_results, r)
    /\ UNCHANGED <<drill, pc, cap, hist, cur, hl, sal, turn, result, input_data>>
    /\ UNCHANGED <<points, drill_types, returned, pose, tracked, threads>>

\* The first loop is over: the report is compiled and returned, or the loop raises.
ExecCompile ==
    /\ returned = NoResult /\ Len(all_results) = Len(drill_types)
    /\ points = None
    /\ returned' = compile_final_report(
                       [kind |-> "return", final_text_report |-> <<>>,
                        final_image_b64 |-> NoImage],
                       all_results)
    /\ UNCHANGED <<drill, pc, cap, hist, cur, hl, sal, turn, result, input_data>>
    /\ UNCHANGED <<points, drill_types, all_results, pose, tracked, threads>>

NextExec ==
    \/ ExecAnalyze
    \/ ExecCompile

SpecExec == InitExec /\ [][NextExec]_vars

(***************************************************************************)
(* Two requests for the same drill served by concurrent threads.           *)
(***************************************************************************)

\* Each thread is about to enter the analyzer of the drill; the turn analyzer
\* does not call _get_pose_model, it reads the global at each frame.
InitConc ==
    /\ drill \in Drills
    /\ pc = "idle"
    /\ cap = [left |-> 0, kind |-> "none"]
    /\ hist = <<>>
    /\ cur = NoFeedback
    /\ hl = HL_init
    /\ sal = SAL_init
    /\ turn = TURN_init
    /\ result = NoResult
    /\ input_data = VideoInput
    /\ points = None
    /\ drill_types = <<>>
    /\ all_results = <<>>
    /\ returned = NoResult
    /\ pose = ModulePose(drill)
    /\ tracked = NoTracking
    /\ threads = [t \in Sessions |->
                    [pc |-> IF drill \in {"turn_right", "turn_left"}
                            THEN "process" ELSE "call",
                     model |-> None,
                     left |-> MaxThreadFrames,
                     observed |-> {}]]

\* _get_pose_model: "if pose is None:"
CheckPose(t) ==
    /\ threads[t].pc = "call"
    /\ threads' = [threads EXCEPT ![t].pc = IF pose = None THEN "create" ELSE "return"]
    /\ UNCHANGED <<pose, tracked>>

\* _get_pose_model: "pose = mp_pose.Pose(...)"
CreatePose(t) ==
    /\ threads[t].pc = "create"
    /\ pose' = [created_by |-> t]
    /\ threads' = [threads EXCEPT ![t].pc = "return"]
    /\ UNCHANGED tracked

\* _get_pose_model: "return pose", and "model = _get_pose_model()" in the analyzer.
ReturnPose(t) ==
    /\ threads[t].pc = "return"
    /\ threads' = [threads EXCEPT ![t].pc = "process", ![t].model = pose]
    /\ UNCHANGED <<pose, tracked>>

\* One frame of the loop: model.process(image), or pose.process(image) in the
\* turn analyzer.  The tracker state the call reads is what earlier calls left.
ProcessFrame(t) ==
    /\ threads[t].pc = "process" /\ threads[t].left > 0
    /\ LET handle == IF drill \in {"turn_right", "turn_left"}
                     THEN pose ELSE threads[t].model
       IN  /\ tracked' = process(tracked, handle, t)
           /\ threads' = [threads EXCEPT
                             ![t].model = handle,
                             ![t].left = @ - 1,
                             ![t].observed = @ \cup (tracked[handle.created_by] \ {t})]
    /\ UNCHANGED pose

\* cap.read() returns no frame: the session ends.
FinishSession(t) ==
    /\ threads[t].pc = "process"
    /\ threads' = [threads EXCEPT ![t].pc = "done"]
    /\ UNCHANGED <<pose, tracked>>

NextConc ==
    /\ \E t \in Sessions :
          \/ CheckPose(t)
          \/ CreatePose(t)
          \/ ReturnPose(t)
          \/ ProcessFrame(t)
          \/ FinishSession(t)
    /\ UNCHANGED <<drill, pc, cap, hist, cur, hl, sal, turn, result, input_data, callVars>>

SpecConc == InitConc /\ [][NextConc]_vars

(***************************************************************************)
(* Properties.                                                             *)
(***************************************************************************)

\* A frame that passes the high-leg visibility gate and has a lifted leg.
HLLiftedSide(f) ==
    IF f.y["l_knee"] < f.y["r_knee"] - 40 THEN "l"
    ELSE IF f.y["r_knee"] < f.y["l_knee"] - 40 THEN "r"
    ELSE "none"

HLGatePassed(f) == f.pose /\ \A k \in HL_required_landmarks : f.vis[k] >= 50

HLUsable(f) == HLGatePassed(f) /\ HLLiftedSide(f) # "none"

\* A frame with a pose that is rejected: low visibility, or no lifted leg.
HLRejected(f) == f.pose /\ ~HLUsable(f)

SalUsable(f) == f.pose /\ \A k \in SAL_required_landmarks : f.vis[k] >= 50

SalRejected(f) == f.pose /\ ~SalUsable(f)

HLCriteria == {"knee_height", "knee_angle", "stationary_leg", "foot_angle"}

SalCriteria == {"finger_placement", "hand_form", "elbow_raise"}

\* The per-criterion satisfied flags the checks give a usable frame.
HLSatisfied(f) == get_posture_feedback(f).success_flags

SalSatisfied(f) == get_salute_posture_feedback(f).success_flags

HLCumulative ==
    [knee_height |-> hl.knee_height_succeeded, knee_angle |-> hl.knee_angle_succeeded,
     stationary_leg |-> hl.stationary_leg_succeeded, foot_angle |-> hl.foot_angle_succeeded]

SalCumulative ==
    [finger_placement |-> sal.finger_placement_succeeded,
     hand_form |-> sal.hand_form_succeeded, elbow_raise |-> sal.elbow_raise_succeeded]

Frame(i) == hist[i]

FrameNos == 1..Len(hist)

\* C1: every cumulative per-criterion success flag of the three video analyzers
\* is monotonic: no step (a usable frame, a rejected one, one without a pose, the
\* end of the video) takes a flag that is true back to false.
C1_CumulativeFlagsMonotonic ==
    [][ /\ \A c \in HLCriteria : HLCumulative[c] => HLCumulative'[c]
        /\ \A c \in SalCriteria : SalCumulative[c] => SalCumulative'[c]
        /\ turn.heel_disengagement_detected => turn'.heel_disengagement_detected
        /\ turn.snap_motion_detected => turn'.snap_motion_detected
        /\ turn.final_snap_achieved => turn'.final_snap_achieved ]_vars

\* C1 happens: a flag is true although the latest frame is usable and fails that
\* very criterion.
C1_Witness ==
    /\ drill = "high_leg_march" /\ Len(hist) >= 2
    /\ HLUsable(Frame(Len(hist)))
    /\ ~HLSatisfied(Frame(Len(hist))).knee_height
    /\ hl.knee_height_succeeded

\* C2: when a high-leg or salute session with at least one usable frame is
\* finalized, each cumulative flag is the OR over exactly the usable frames of the
\* frame's satisfied flag, and the report is an overall pass iff every cumulative
\* flag is true.
C2_CumulativeIsOrOverUsableFrames ==
    /\ (pc = "done" /\ drill = "high_leg_march" /\ \E i \in FrameNos : HLUsable(Frame(i)))
        => /\ result.kind = "report"
           /\ \A c \in HLCriteria :
                HLCumulative[c] = (\E i \in FrameNos : HLUsable(Frame(i)) /\ HLSatisfied(Frame(i))[c])
           /\ result.overall_correct = (\A c \in HLCriteria : HLCumulative[c])
           /\ (result.feedback.overall = "PERFECT HIGH LEG MARCH POSTURE ACHIEVED")
                = (\A c \in HLCriteria : HLCumulative[c])
           /\ result.feedback.breakdown = HLCumulative
    /\ (pc = "done" /\ drill = "salute" /\ \E i \in FrameNos : SalUsable(Frame(i)))
        => /\ result.kind = "report"
           /\ \A c \in SalCriteria :
                SalCumulative[c] = (\E i \in FrameNos : SalUsable(Frame(i)) /\ SalSatisfied(Frame(i))[c])
           /\ result.overall_correct = (\A c \in SalCriteria : SalCumulative[c])
           /\ (result.feedback.overall = "PERFECT SALUTE POSTURE DETECTED")
                = (\A c \in SalCriteria : SalCumulative[c])
           /\ result.feedback.breakdown = SalCumulative

\* C2 happens: a finalized high-leg session passes although no single frame
\* satisfied every criterion, and one of its frames was not usable.
C2_Witness ==
    /\ pc = "done" /\ drill = "high_leg_march" /\ result.kind = "report"
    /\ result.overall_correct
    /\ \E i \in FrameNos : ~HLUsable(Frame(i))
    /\ \A i \in FrameNos :
        HLUsable(Frame(i)) => \E c \in HLCriteria : ~HLSatisfied(Frame(i))[c]

\* C3 (leniency): if exactly one frame of a high-leg or salute session satisfies
\* every criterion and every other frame fails every criterion, the finalized
\* report is an overall pass, wherever the one frame is.
C3_OneGoodFrameSuffices ==
    /\ (pc = "done" /\ drill = "high_leg_march"
        /\ \E i \in FrameNos :
            /\ HLUsable(Frame(i)) /\ \A c \in HLCriteria : HLSatisfied(Frame(i))[c]
            /\ \A j \in FrameNos \ {i} :
                HLUsable(Frame(j)) /\ \A c \in HLCriteria : ~HLSatisfied(Frame(j))[c])
        => result.kind = "report" /\ result.overall_correct
    /\ (pc = "done" /\ drill = "salute"
        /\ \E i \in FrameNos :
            /\ SalUsable(Frame(i)) /\ \A c \in SalCriteria : SalSatisfied(Frame(i))[c]
            /\ \A j \in FrameNos \ {i} :
                SalUsable(Frame(j)) /\ \A c \in SalCriteria : ~SalSatisfied(Frame(j))[c])
        => result.kind = "report" /\ result.overall_correct

\* C3 happens: a salute session of three frames, the first perfect and the two
\* after it failing every criterion, has been finalized.
C3_Witness ==
    /\ pc = "done" /\ drill = "salute" /\ Len(hist) = 3
    /\ SalUsable(Frame(1)) /\ \A c \in SalCriteria : SalSatisfied(Frame(1))[c]
    /\ \A j \in {2, 3} : SalUsable(Frame(j)) /\ \A c \in SalCriteria : ~SalSatisfied(Frame(j))[c]
    /\ result.overall_correct

\* C4: a high-leg or salute session of an opened video in which no frame is
\* usable finalizes to the "no valid posture detected" result with an empty image
\* list, never to a report with a verdict and a breakdown.
C4_NoUsableFrameIsTerminalFailure ==
    /\ (pc = "done" /\ drill = "high_leg_march" /\ result.kind # "open_error"
        /\ \A i \in FrameNos : ~HLUsable(Frame(i)))
        => result.kind = "no_valid_posture" /\ result.image_b64_array = <<>>
    /\ (pc = "done" /\ drill = "salute" /\ result.kind # "open_error"
        /\ \A i \in FrameNos : ~SalUsable(Frame(i)))
        => result.kind = "no_valid_posture" /\ result.image_b64_array = <<>>

\* C4 happens: a high-leg session whose frames were a rejected one and one
\* without a pose has been finalized.
C4_Witness ==
    /\ pc = "done" /\ drill = "high_leg_march" /\ Len(hist) >= 2
    /\ \E i \in FrameNos : HLRejected(Frame(i))
    /\ \E i \in FrameNos : ~Frame(i).pose
    /\ \A i \in FrameNos : ~HLUsable(Frame(i))
    /\ result.kind = "no_valid_posture"

\* C5: a frame rejected for low visibility or (high-leg) for no lifted leg
\* changes nothing of the session but the last-known landmarks: the cumulative
\* flags, found_valid_pose, both exemplars, the minimum failure count, the best
\* angles and the head-position samples stay as they were, and the loop goes on.
C5_RejectedFrameChangesNothing ==
    [][ (pc = "loop" /\ Len(hist') = Len(hist) + 1)
        => /\ (drill = "high_leg_march" /\ HLRejected(hist'[Len(hist')]))
                => /\ HLCumulative' = HLCumulative
                   /\ hl'.found_valid_pose = hl.found_valid_pose
                   /\ hl'.best_success_frame_image = hl.best_success_frame_image
                   /\ hl'.best_failure_frame_image = hl.best_failure_frame_image
                   /\ hl'.best_failure_points_for_frame = hl.best_failure_points_for_frame
                   /\ hl'.angles_for_annotation = hl.angles_for_annotation
                   /\ hl'.min_failures_in_frame = hl.min_failures_in_frame
                   /\ hl'.best_hip_flexion_overall = hl.best_hip_flexion_overall
                   /\ hl'.best_knee_bend_overall = hl.best_knee_bend_overall
                   /\ hl'.best_foot_angle_overall = hl.best_foot_angle_overall
                   /\ hl'.last_known_landmarks = Len(hist')
                   /\ pc' = "loop"
           /\ (drill = "salute" /\ SalRejected(hist'[Len(hist')]))
                => /\ SalCumulative' = SalCumulative
                   /\ sal'.found_valid_pose = sal.found_valid_pose
                   /\ sal'.best_success_frame_image = sal.best_success_frame_image
                   /\ sal'.best_failure_frame_image = sal.best_failure_frame_image
                   /\ sal'.best_failure_points_for_frame = sal.best_failure_points_for_frame
                   /\ sal'.min_failures_in_frame = sal.min_failures_in_frame
                   /\ sal'.head_positions = sal.head_positions
                   /\ sal'.last_known_landmarks = Len(hist')
                   /\ pc' = "loop" ]_vars

\* C5 happens: a high-leg session took a usable frame and then a rejected one,
\* and is still in its loop.
C5_Witness ==
    /\ drill = "high_leg_march" /\ pc = "loop" /\ Len(hist) = 2
    /\ HLUsable(Frame(1)) /\ HLRejected(Frame(2))
    /\ hl.found_valid_pose /\ hl.last_known_landmarks = 2

HLLabels == <<"KNEE_HEIGHT", "KNEE_ANGLE", "STATIONARY_LEG", "FOOT_ANGLE">>

HLCriterionOf(label) ==
    CASE label = "KNEE_HEIGHT" -> "knee_height"
      [] label = "KNEE_ANGLE" -> "knee_angle"
      [] label = "STATIONARY_LEG" -> "stationary_leg"
      [] label = "FOOT_ANGLE" -> "foot_angle"

SalLabels == <<"FINGER_POS", "HAND_FORM", "ELBOW_RAISE">>

SalCriterionOf(label) ==
    CASE label = "FINGER_POS" -> "finger_placement"
      [] label = "HAND_FORM" -> "hand_form"
      [] label = "ELBOW_RAISE" -> "elbow_raise"

\* The feedback the loop holds is that of a usable frame.
CurUsable == Len(hist) >= 1 /\ Frame(Len(hist)).pose /\ cur.success_flags # None

\* C6: checks never short-circuit: for a usable frame every criterion has a flag,
\* and the failed-criterion list holds exactly the labels of the criteria whose
\* flag is false, each once, in the fixed check order.
C6_ChecksNeverShortCircuit ==
    /\ (drill = "high_leg_march" /\ CurUsable)
        => LET Failed(label) == ~cur.success_flags[HLCriterionOf(label)]
           IN  /\ DOMAIN cur.success_flags = HLCriteria
               /\ cur.fail_points = SelectSeq(HLLabels, Failed)
    /\ (drill = "salute" /\ CurUsable)
        => LET Failed(label) == ~cur.success_flags[SalCriterionOf(label)]
           IN  /\ DOMAIN cur.success_flags = SalCriteria
               /\ cur.fail_points = SelectSeq(SalLabels, Failed)

\* C6 happens: a high-leg frame failed the first check and the last one too, and
\* both are reported.
C6_Witness ==
    /\ drill = "high_leg_march" /\ CurUsable
    /\ ~cur.success_flags.knee_height /\ ~cur.success_flags.foot_angle
    /\ cur.success_flags.knee_angle
    /\ cur.fail_points = <<"KNEE_HEIGHT", "STATIONARY_LEG", "FOOT_ANGLE">>

\* The high-leg check table on the frame just evaluated, with inclusive ranges.
HLTable(f, angles) ==
    LET a == HLLiftedSide(f)
    IN  [knee_height |-> f.y[a \o "_knee"] <= f.y[a \o "_hip"] + 40,
         knee_angle |-> /\ 80 <= angles.hip_flexion /\ angles.hip_flexion <= 120
                        /\ 80 <= angles.knee_bend /\ angles.knee_bend <= 110,
         stationary_leg |-> angles.support_knee > 170,
         foot_angle |-> 70 <= angles.foot_angle /\ angles.foot_angle <= 110]

HLScenario(f, angles) ==
    /\ angles.hip_flexion = 90 /\ angles.knee_bend = 90
    /\ angles.support_knee = 175 /\ angles.foot_angle = 90
    /\ f.y[HLLiftedSide(f) \o "_knee"] = f.y[HLLiftedSide(f) \o "_hip"]

\* C7: for a usable high-leg frame the four flags equal the check table, ranges
\* inclusive; a frame with hip-flexion 90, knee-bend 90, support-knee 175,
\* foot-angle 90 and the knee at hip level satisfies all four, and the one-frame
\* session of it is an overall pass.
C7_HighLegCheckTable ==
    (drill = "high_leg_march" /\ Len(hist) = 1 /\ HLUsable(Frame(1)))
        => /\ cur.success_flags = HLTable(Frame(1), cur.angles)
           /\ HLScenario(Frame(1), cur.angles)
                => /\ \A c \in HLCriteria : cur.success_flags[c]
                   /\ pc = "done" => result.kind = "report" /\ result.overall_correct

\* C7 happens: the one-frame session of the scenario frame has been finalized.
C7_Witness ==
    /\ drill = "high_leg_march" /\ pc = "done" /\ Len(hist) = 1 /\ HLUsable(Frame(1))
    /\ HLScenario(Frame(1), cur.angles)
    /\ result.overall_correct

\* C8: the salute finger-placement check is inclusive: for a usable salute frame
\* finger_placement is satisfied iff the index finger is at most 0.08 off the
\* target vertically and at most 0.12 horizontally (twice the horizontal
\* deviation, which is a whole number, is compared with twice 0.12).
C8_FingerPlacementInclusive ==
    (drill = "salute" /\ Len(hist) = 1 /\ SalUsable(Frame(1)))
        => LET f == Frame(1)
               y_dev == Abs(f.y["r_index"] - f.y["r_eye_outer"])
               x_dev_twice == Abs(2 * f.x["r_index"] - (f.x["r_eye_outer"] + f.x["r_ear"]))
           IN  cur.success_flags.finger_placement = (y_dev <= 80 /\ x_dev_twice <= 240)

\* The moving foot of a turn is the left one in a right turn, the right one in a
\* left turn.
MovingFoot == IF drill = "turn_right" THEN "l" ELSE "r"

HeelLift(f) == f.y[MovingFoot \o "_foot_index"] - f.y[MovingFoot \o "_heel"]

\* C9: a finalized turn session in which the moving foot's toe-y minus heel-y
\* exceeds 0.015 in no frame has the heel-disengagement flag false, and its report
\* is an overall failure whose breakdown names heel disengagement as failed,
\* whatever the snap-motion and final-position flags are.
C9_NoHeelLiftFailsTheTurn ==
    (/\ pc = "done" /\ drill \in {"turn_right", "turn_left"} /\ result.kind = "report"
     /\ \A i \in FrameNos : Frame(i).pose => HeelLift(Frame(i)) <= 15)
        => /\ ~turn.heel_disengagement_detected
           /\ ~result.overall_correct
           /\ result.feedback.overall = "TURN EXECUTION FAILED"
           /\ ~result.feedback.breakdown.heel_disengagement

\* C9 happens: a finalized turn with snap motion and final position achieved but
\* the heel at the threshold, not over it, in some frame.
C9_Witness ==
    /\ pc = "done" /\ drill = "turn_right" /\ result.kind = "report"
    /\ \A i \in FrameNos : Frame(i).pose => HeelLift(Frame(i)) <= 15
    /\ \E i \in FrameNos : Frame(i).pose /\ HeelLift(Frame(i)) = 15
    /\ turn.snap_motion_detected /\ turn.final_snap_achieved
    /\ ~result.overall_correct

\* The frames so far that are usable and fail no criterion.
HLZeroFailure == { i \in FrameNos : HLUsable(Frame(i)) /\ \A c \in HLCriteria : HLSatisfied(Frame(i))[c] }

SalZeroFailure == { i \in FrameNos : SalUsable(Frame(i)) /\ \A c \in SalCriteria : SalSatisfied(Frame(i))[c] }

First(S) == IF S = {} THEN NoImage ELSE CHOOSE i \in S : \A j \in S : i <= j

\* C10: in the high-leg and salute analyzers the success exemplar is the first
\* usable frame with zero failing criteria; a later such frame does not replace it.
C10_SuccessExemplarIsFirst ==
    /\ drill = "high_leg_march" => hl.best_success_frame_image = First(HLZeroFailure)
    /\ drill = "salute" => sal.best_success_frame_image = First(SalZeroFailure)

\* C10 happens: two zero-failure frames were seen after a failing one, and the
\* exemplar is the earlier of the two.
C10_Witness ==
    /\ drill = "high_leg_march" /\ Len(hist) = 3
    /\ HLZeroFailure = {2, 3}
    /\ HLUsable(Frame(1))
    /\ hl.best_success_frame_image = 2

\* The number of criteria a frame fails: 0 for a frame that is not usable.
HLFailCount(f) ==
    IF HLUsable(f)
    THEN LET sat == HLSatisfied(f) IN Cardinality({c \in HLCriteria : ~sat[c]})
    ELSE 0

SalFailCount(f) ==
    IF SalUsable(f)
    THEN LET sat == SalSatisfied(f) IN Cardinality({c \in SalCriteria : ~sat[c]})
    ELSE 0

\* The failure count of every frame so far.
HLFailCounts == [i \in FrameNos |-> HLFailCount(Frame(i))]

SalFailCounts == [i \in FrameNos |-> SalFailCount(Frame(i))]

\* Of the frames with a nonzero count, those at the minimum nonzero count.
Fewest(cnt) ==
    { i \in DOMAIN cnt : cnt[i] > 0 /\ \A j \in DOMAIN cnt : cnt[j] > 0 => cnt[i] <= cnt[j] }

HLFewestFailing == Fewest(HLFailCounts)

SalFewestFailing == Fewest(SalFailCounts)

Last(S) == IF S = {} THEN NoImage ELSE CHOOSE i \in S : \A j \in S : j <= i

\* C11: in analyze_high_leg_march the failure exemplar is always the most recent
\* usable frame whose nonzero failure count equals the minimum nonzero failure
\* count seen so far (ties favour the later frame), none if no usable frame
\* failed; the minimum and the exemplar's labels are that frame's.
C11_HLFailureExemplarIsLatestFewest ==
    drill = "high_leg_march"
        => LET cnt == HLFailCounts
               latest == Last(Fewest(cnt))
           IN  /\ hl.best_failure_frame_image = latest
               /\ latest # NoImage
                    => /\ hl.min_failures_in_frame = cnt[latest]
                       /\ hl.best_failure_points_for_frame
                            = get_posture_feedback(Frame(latest)).fail_points
               /\ latest = NoImage
                    => hl.min_failures_in_frame = INF /\ hl.best_failure_points_for_frame = <<>>

\* C11 happens: the first and the third frame tie at one failure, the second has
\* more, and the exemplar is the third.
C11_Witness ==
    /\ drill = "high_leg_march" /\ Len(hist) = 3
    /\ HLFewestFailing = {1, 3}
    /\ HLFailCount(Frame(2)) > 1
    /\ HLFailCount(Frame(1)) = 1
    /\ hl.best_failure_frame_image = 3

\* C12: in analyze_salute the failure exemplar is the most recent of the usable
\* frames tied at the minimum nonzero failure count (replaced on less-or-equal).
C12_SalFailureExemplarIsLatestFewest ==
    drill = "salute" => sal.best_failure_frame_image = Last(SalFewestFailing)

Turns == {"turn_right", "turn_left"}

\* The locals of analyze_turn_logic after the first k frames so far.
RECURSIVE TurnAfter(_)
TurnAfter(k) ==
    IF k = 0 THEN TURN_init
    ELSE TURN_frame(TurnAfter(k - 1), k, Frame(k), drill = "turn_right")

\* The failing criteria of the i-th frame as the loop listed them.
TurnFailPoints(i) ==
    TURN_current_frame_fail_points(TurnAfter(i - 1), i, Frame(i), drill = "turn_right")

\* The failure count of every frame so far: 0 for a frame without a pose.
TurnFailCounts == [i \in FrameNos |-> Len(TurnFailPoints(i))]

\* C13: in the turn analyzer the failure exemplar at finalization is a frame with
\* the fewest nonzero failures among the frames with a pose, never one with more
\* failures than another failing frame.
C13_TurnFailureExemplarIsFewest ==
    (pc = "done" /\ drill \in Turns /\ result.kind = "report")
        => LET cnt == TurnFailCounts
           IN  (\E i \in FrameNos : cnt[i] > 0) => turn.best_failure_frame \in Fewest(cnt)

\* C14: in the turn analyzer the success exemplar is the first frame with zero
\* failing criteria; a later zero-failure frame does not replace it.
C14_TurnSuccessExemplarIsFirst ==
    drill \in Turns
        => LET cnt == TurnFailCounts
           IN  turn.best_success_frame = First({ i \in FrameNos : Frame(i).pose /\ cnt[i] = 0 })

Range(q) == { q[i] : i \in DOMAIN q }

\* The labels of the criteria unsatisfied at session level.
HLFinalFailures == { HLLabels[k] : k \in { j \in DOMAIN HLLabels : ~HLCumulative[HLCriterionOf(HLLabels[j])] } }

SalFinalFailures == { SalLabels[k] : k \in { j \in DOMAIN SalLabels : ~SalCumulative[SalCriterionOf(SalLabels[j])] } }

\* C15: when a high-leg or salute session finalizes as not overall correct and a
\* failure exemplar exists, the labels attached to the representative frame are
\* the criteria unsatisfied at session level, not those the exemplar frame failed.
C15_FailureExemplarCarriesFinalFailures ==
    /\ (pc = "done" /\ drill = "high_leg_march" /\ result.kind = "report"
        /\ ~result.overall_correct /\ hl.best_failure_frame_image # NoImage)
        => /\ Len(result.image_b64_array) = 1
           /\ Range(result.image_b64_array[1].fail_points) = HLFinalFailures
    /\ (pc = "done" /\ drill = "salute" /\ result.kind = "report"
        /\ ~result.overall_correct /\ sal.best_failure_frame_image # NoImage)
        => /\ Len(result.image_b64_array) = 1
           /\ Range(result.image_b64_array[1].fail_points) = SalFinalFailures

\* The stability lines of the salute report.
InsufficientData == {"Pose held too briefly to measure", "Not enough data"}

Measured ==
    {"Properly stable (Very Good)", "Moderately stable (Keep improving)",
     "Moving too much (Kindly work on that)"}

\* C16: when a salute session collected fewer than 10 head-position samples, the
\* stability line of its report is the insufficient-data verdict, never a measured
\* class, whether the three geometric criteria passed or failed.
C16_FewSamplesIsInsufficientData ==
    (pc = "done" /\ drill = "salute" /\ result.kind = "report" /\ Len(sal.head_positions) < 10)
        => result.feedback.head_stability \in InsufficientData

\* C16 happens: a finalized salute session of more than ten usable frames with
\* nine samples that is not an overall pass.
C16_Witness ==
    /\ pc = "done" /\ drill = "salute" /\ result.kind = "report"
    /\ Len(hist) > 10 /\ \A i \in FrameNos : SalUsable(Frame(i))
    /\ Len(sal.head_positions) = 9
    /\ ~result.overall_correct
    /\ result.feedback.head_stability = "Pose held too briefly to measure"

\* C17: whenever a salute session collected 10 or more head-position samples,
\* exactly 10 included, the stability verdict is one of the three measured
\* classes, never the insufficient-data verdict.
C17_TenSamplesAreMeasured ==
    (pc = "done" /\ drill = "salute" /\ result.kind = "report" /\ Len(sal.head_positions) >= 10)
        => result.feedback.head_stability \in Measured

\* C18: the head-stability statistic is over all valid frames: every frame that
\* passes the salute visibility gate (every required point, the nose included, at
\* visibility 0.5 or more) appends exactly one head-position sample, so there are
\* always as many samples as usable frames.
C18_OneSamplePerUsableFrame ==
    drill = "salute"
        => Len(sal.head_positions) = Cardinality({ i \in FrameNos : SalUsable(Frame(i)) })

\* The landmarks the turn checks need: hips, knees, ankles, moving heel and toe.
TurnRequired ==
    {"r_hip", "l_hip", "r_knee", "l_knee", "r_ankle", "l_ankle",
     MovingFoot \o "_heel", MovingFoot \o "_foot_index"}

TurnLowVisible(f) == f.pose /\ \E k \in TurnRequired : f.vis[k] < 50

\* C19: in the turn analyzer a frame in which a required landmark has visibility
\* below 0.5 is rejected: it changes none of the three cumulative flags and is
\* not a candidate for either exemplar.
C19_TurnLowVisibilityFrameIsRejected ==
    [][ (pc = "loop" /\ drill \in Turns /\ Len(hist') = Len(hist) + 1
         /\ TurnLowVisible(hist'[Len(hist')]))
        => /\ turn'.heel_disengagement_detected = turn.heel_disengagement_detected
           /\ turn'.snap_motion_detected = turn.snap_motion_detected
           /\ turn'.final_snap_achieved = turn.final_snap_achieved
           /\ turn'.best_success_frame = turn.best_success_frame
           /\ turn'.best_failure_frame = turn.best_failure_frame ]_vars

\* C20: a turn session of an opened video in which no frame has a usable pose
\* finalizes to the terminal "no valid posture detected" failure with no exemplar,
\* not to the ordinary report that lists criteria as failed.
C20_TurnNoUsableFrameIsTerminalFailure ==
    (pc = "done" /\ drill \in Turns /\ result.kind # "open_error"
     /\ \A i \in FrameNos : ~Frame(i).pose \/ TurnLowVisible(Frame(i)))
        => result.kind = "no_valid_posture" /\ result.image_b64_array = <<>>

\* The moving knee angle of a turn frame.
MovingKneeAngle(f) ==
    calculate_angle(f, MovingFoot \o "_hip", MovingFoot \o "_knee", MovingFoot \o "_ankle")

\* A frame with no turn motion: the moving heel not lifted, the moving knee not
\* bent (straight).
TurnStill(f) == f.pose /\ HeelLift(f) <= 15 /\ MovingKneeAngle(f) > 170

\* C21: in the turn analyzer a frame with no turn motion is a "no active pose"
\* frame left out of the aggregation: it sets none of the three flags, so a
\* session made only of such frames satisfies no criterion.
C21_TurnStillFramesSetNoFlag ==
    (drill \in Turns /\ \A i \in FrameNos : TurnStill(Frame(i)))
        => /\ ~turn.heel_disengagement_detected
           /\ ~turn.snap_motion_detected
           /\ ~turn.final_snap_achieved

\* The angle sets of the usable frames so far.
HLObservedAngles ==
    { get_posture_feedback(Frame(i)).angles : i \in { j \in FrameNos : HLUsable(Frame(j)) } }

\* best is an angle of kind k observed in a usable frame, and none is nearer to 90.
NearestTo90(best, k, observed) ==
    \E a \in observed :
        /\ a[k] = best
        /\ \A b \in observed : Abs(a[k] - 90) <= Abs(b[k] - 90)

\* C26: in analyze_high_leg_march, once a usable frame was seen, each best angle
\* (hip flexion, knee bend, foot angle) is an angle observed in a usable frame at
\* minimal distance from 90 degrees among the usable frames, also when an observed
\* angle is exactly 0; the report prints these best angles.
C26_BestAnglesAreNearestTo90 ==
    (drill = "high_leg_march" /\ \E i \in FrameNos : HLUsable(Frame(i)))
        => LET observed == HLObservedAngles
           IN  /\ NearestTo90(hl.best_hip_flexion_overall, "hip_flexion", observed)
               /\ NearestTo90(hl.best_knee_bend_overall, "knee_bend", observed)
               /\ NearestTo90(hl.best_foot_angle_overall, "foot_angle", observed)
               /\ pc = "done"
                    => result.feedback.best
                        = [hip_flexion |-> hl.best_hip_flexion_overall,
                           knee_bend |-> hl.best_knee_bend_overall,
                           foot_angle |-> hl.best_foot_angle_overall]

\* C26 happens: the first usable frame had a hip flexion of exactly 0, a later
\* one was nearer to 90, and a last one was farther again.
C26_Witness ==
    /\ drill = "high_leg_march" /\ Len(hist) = 3
    /\ \A i \in FrameNos : HLUsable(Frame(i))
    /\ get_posture_feedback(Frame(1)).angles.hip_flexion = 0
    /\ get_posture_feedback(Frame(2)).angles.hip_flexion = 90
    /\ get_posture_feedback(Frame(3)).angles.hip_flexion = 180
    /\ hl.best_hip_flexion_overall = 90

TurnAllFlags ==
    /\ turn.heel_disengagement_detected
    /\ turn.snap_motion_detected
    /\ turn.final_snap_achieved

\* C28: in the turn analyzer, when all three cumulative flags are true a success
\* exemplar exists: the frame at which the last flag became true (and every frame
\* with a pose after it) has zero frame-level failures, so best_success_frame is
\* set, and the report of the overall pass carries that frame as its image.
C28_TurnPassHasSuccessExemplar ==
    (drill \in Turns /\ TurnAllFlags)
        => /\ turn.best_success_frame # NoImage
           /\ Frame(Len(hist)).pose => cur.fail_points = <<>>
           /\ (pc = "done" /\ result.kind = "report")
                => /\ result.overall_correct
                   /\ Len(result.image_b64_array) = 1
                   /\ result.image_b64_array[1].frame = turn.best_success_frame

\* C28 happens: a finalized left turn whose three flags were set by three
\* different frames, the last one being the exemplar.
C28_Witness ==
    /\ pc = "done" /\ drill = "turn_left" /\ result.kind = "report" /\ Len(hist) = 3
    /\ result.overall_correct
    /\ ~TURN_overall_correct(TurnAfter(2))
    /\ TurnAfter(1) # TURN_frame(TURN_init, 1, Frame(2), FALSE)
    /\ turn.best_success_frame = 3
    /\ turn.best_failure_frame # NoImage

\* C29: in analyze_high_leg_march, when the session passes and the success
\* exemplar is shown, the angles attached to the image are the angles computed
\* from the success exemplar frame, even if failure frames were processed later.
C29_DisplayedAnglesAreOfShownFrame ==
    (/\ pc = "done" /\ drill = "high_leg_march" /\ result.kind = "report"
     /\ result.overall_correct
     /\ Len(result.image_b64_array) = 1
     /\ result.image_b64_array[1].frame = hl.best_success_frame_image)
        => result.image_b64_array[1].angles =
               get_posture_feedback(Frame(hl.best_success_frame_image)).angles

\* C27: in the turn analyzer no frame satisfies both the snap-motion check and
\* the final-position check, so a session whose frames are all identical, such as
\* the five copies of the webcam frame that live mode analyzes, never passes.
C27_IdenticalFramesNeverPass ==
    /\ (drill \in Turns /\ Len(hist) > 0 /\ \A i \in FrameNos : Frame(i) = Frame(1))
          => ~TurnAllFlags
    /\ (pc = "done" /\ drill \in Turns /\ input_data.kind = "frame"
        /\ result.kind = "report")
          => /\ Len(hist) = LIVE_TURN_FRAMES
             /\ \A i \in FrameNos : Frame(i) = input_data.frame
             /\ ~result.overall_correct

\* C27 happens: a live left turn has been analyzed over its five identical frames,
\* a bent moving knee with the heel lifted, and reported as failed with two of the
\* three flags set.
C27_Witness ==
    /\ pc = "done" /\ drill = "turn_left" /\ input_data.kind = "frame"
    /\ result.kind = "report" /\ ~result.overall_correct
    /\ Len(hist) = LIVE_TURN_FRAMES
    /\ turn.heel_disengagement_detected /\ turn.snap_motion_detected
    /\ ~turn.final_snap_achieved

\* What the video analyzers return for a video made of the single frame f.
HLVideoOfOneFrame(f) == HL_report(HL_frame(HL_init, 1, f))
SalVideoOfOneFrame(f) == SAL_report(SAL_frame(SAL_init, 1, f))

LiveSuccess == result.feedback.text \in {"Perfect Posture!", "Perfect Salute!"}

\* C22: live mode is the one-frame case of the video pipeline: for high-leg march
\* and salute and every frame with a usable pose, the live analyzer reports
\* success exactly when the video analyzer, run on the video of that single frame,
\* reports an overall pass, and both attach the same set of failed-criterion labels.
C22_LiveIsOneFrameVideo ==
    (pc = "done" /\ input_data.kind = "frame" /\ result.kind = "live")
        => LET f == input_data.frame
           IN  /\ (drill = "high_leg_march" /\ HLUsable(f))
                    => LET video == HLVideoOfOneFrame(f)
                       IN  /\ video.kind = "report"
                           /\ LiveSuccess <=> video.overall_correct
                           /\ Len(video.image_b64_array) = 1
                           /\ Range(result.image_b64_array[1].fail_points)
                                = Range(video.image_b64_array[1].fail_points)
                           /\ Range(result.feedback.labels) = Range(video.feedback.areas)
               /\ (drill = "salute" /\ SalUsable(f))
                    => LET video == SalVideoOfOneFrame(f)
                       IN  /\ video.kind = "report"
                           /\ LiveSuccess <=> video.overall_correct
                           /\ Len(video.image_b64_array) = 1
                           /\ Range(result.image_b64_array[1].fail_points)
                                = Range(video.image_b64_array[1].fail_points)
                           /\ Range(result.feedback.labels) = Range(video.feedback.areas)

\* C22 happens: the live analyzer has judged a usable high-leg frame that fails
\* some criterion but not the knee height, and the video of that frame fails too.
C22_Witness ==
    /\ pc = "done" /\ drill = "high_leg_march" /\ input_data.kind = "frame"
    /\ result.kind = "live"
    /\ HLUsable(input_data.frame)
    /\ ~LiveSuccess
    /\ result.feedback.labels # <<>>
    /\ get_posture_feedback(input_data.frame).success_flags.knee_height
    /\ ~HLVideoOfOneFrame(input_data.frame).overall_correct

\* C24: for every triple of points, calculate_angle returns a value in [0, 180]:
\* never negative, never above 180, the raw differences above 180 being folded.
C24_AngleInRange ==
    (points # None /\ returned # NoResult)
        => /\ returned.kind = "return"
           /\ returned.value \in 0..180

\* The raw difference of the two bearings of the call.
RawDifference ==
    LET lm == PointLandmarks(points)
    IN  Abs(Atan2Deg(lm, "b", "c") - Atan2Deg(lm, "b", "a"))

\* C24 happens: a call whose raw difference is a reflex angle has returned.
C24_Witness ==
    /\ points # None /\ returned # NoResult
    /\ RawDifference > 180
    /\ returned.value = 360 - RawDifference

\* C25: whenever two of the three points coincide (a = b, c = b or a = c),
\* calculate_angle returns 0 and does not raise.
C25_CoincidingPointsGiveZero ==
    (/\ points # None /\ returned # NoResult
     /\ (points.a = points.b \/ points.c = points.b \/ points.a = points.c))
        => /\ returned.kind = "return"
           /\ returned.value = 0

\* The position of the first result with a non-empty image list, 0 if none.
FirstImage ==
    LET with == { i \in DOMAIN all_results :
                    "image_b64_array" \in DOMAIN all_results[i]
                    /\ all_results[i].image_b64_array # <<>> }
    IN  IF with = {} THEN NoImage ELSE First(with)

\* C30: for any list of requested drill keys, including lists with a key absent
\* from the analysis map, execute_analysis returns normally: one section per
\* requested key in request order, the section of an unknown key being its
\* "not found" error line, and the first non-empty image among the results; it
\* never raises because of an unknown key.
C30_UnknownKeyIsReportedNotRaised ==
    returned # NoResult
        => /\ returned.kind = "return"
           /\ Len(returned.final_text_report) = Len(drill_types)
           /\ \A i \in DOMAIN drill_types :
                 /\ returned.final_text_report[i].drill_key = drill_types[i]
                 /\ drill_types[i] \notin Drills
                      => returned.final_text_report[i].feedback
                            = "Error: Analysis function not found."
           /\ returned.final_image_b64 = FirstImage

\* C23: concurrent analysis sessions share no mutable state: under any
\* interleaving of two concurrent requests (two first calls of _get_pose_model
\* included) the model handle a session works with was created for that session,
\* and no session observes a write made by the other.
C23_SessionsShareNoState ==
    \A t \in DOMAIN threads :
        /\ threads[t].model # None => threads[t].model.created_by = t
        /\ threads[t].observed = {}

====
